---- MODULE Spec2Model ----
(***************************************************************************)
(* Model of the trading risk/execution engine of daton-ai-trading-bot:     *)
(*   main.py                     scheduler, entry job, risk job, heartbeat *)
(*   risk_managment.py           RiskManager, fetch_open_trades, ...       *)
(*   trailing_stoploss_helper.py live_trailing_stop_monitor                *)
(*   trade_profit_monitor.py     fetch_trade_data (writer of the cache)    *)
(*   shared_data.py              shared_risk_data                          *)
(* The broker (OANDA) is the environment: it holds the open trades and the *)
(* prices, fills and closes orders, and may fail any request.              *)
(*                                                                         *)
(* Prices are integers in points of 0.0001; a pip is 1 point, or 100       *)
(* points for a JPY-quoted instrument.  Time is in seconds and advances in *)
(* steps of POLL_INTERVAL.                                                 *)
(***************************************************************************)
EXTENDS Integers, Sequences, FiniteSets, TLC

\* ---------------------------------------------------------------- bounds
MaxTicks == 6     \* the clock stops after this many steps of POLL_INTERVAL
MaxTrades == 2    \* the broker fills at most this many orders in a run

\* ------------------------------------------------------ program constants
ACTIVATION_THRESHOLD == 20
TRAILING_GAP == 10
POLL_INTERVAL == 60
TAKE_PROFIT_PIPS == 70
COOLDOWN_PERIOD == POLL_INTERVAL * 5
ENTRY_THRESHOLD_PIPS == 50
CONDITIONAL_INTERVAL == 120
ORDER_SIZE == 1000
SL_PIPS == 50
TP_PIPS == 70
AUTO_CLOSE_TP == 70
AUTO_CLOSE_SL == -50
ENTRY_EVERY == 5 * 60
RISK_EVERY == 1 * 60

\* The instrument universe (the first two of main.INSTRUMENTS, in list
\* order) and the timeframes the entry job asks for.
INSTRUMENTS == <<"EUR_USD", "USD_JPY">>
TIMEFRAMES == <<"M5", "M15">>
Instruments == {INSTRUMENTS[i] : i \in 1..Len(INSTRUMENTS)}

\* 'JPY' in inst.upper()
IsJPY(inst) == inst \in {"USD_JPY", "EUR_JPY", "GBP_JPY"}

\* pip_size = 0.01 if 'JPY' in inst.upper() else 0.0001, in points of 0.0001
PipSize(inst) == IF IsJPY(inst) THEN 100 ELSE 1

\* The price levels the market moves between, in pips.
PipLevels == {0, 5, 18, 20, 25, 30, 70}
CoarseLevels == {-50, 0, 25, 70}
PriceOf(inst, level) == level * PipSize(inst)

\* time.time() when main() starts: the epoch clock is far from 0.
Epoch == 10 * POLL_INTERVAL

Max(a, b) == IF a >= b THEN a ELSE b
MinOf(S) == CHOOSE x \in S : \A y \in S : x <= y

VARIABLES
    \* broker and environment
    trades,           \* open trades: id -> [instrument, units, price, sl, tp]
    nextId,           \* id of the next trade the broker fills
    price,            \* instrument -> current mid price, in points
    now,              \* time.time()
    \* trailing_stoploss_helper.py
    peaks,            \* trade_id -> highest profit seen
    recently_closed,  \* instrument -> timestamp when closed
    tPc,              \* position of live_trailing_stop_monitor
    tQueue,           \* trades of the current cycle not yet visited
    tCur,             \* the trade being visited (locals tid, inst)
    tProfit,          \* local profit of the visited trade
    tOutcome,         \* what the monitor decided for the visited trade
    \* shared_data.py
    shared_risk_data, \* instrument -> predicted_profit_pips
    \* trade_profit_monitor.py
    pPc,              \* position of trade_profit_monitor.main
    pQueue,           \* trades of fetch_trade_data not yet visited
    \* main.py and the RiskManager instance rm
    mainPc,           \* position of the main thread
    started,          \* the scheduler loop has been entered
    inRisk,           \* job_multiframe was called by job_risk_management
    rNow,             \* local now of job_risk_management
    enabled,          \* connection state flag
    active_trade,     \* rm.active_trade
    last_entry_time,  \* main.last_entry_time
    entryNext,        \* next_run of the scheduled job_multiframe
    riskNext,         \* next_run of the scheduled job_risk_management
    best,             \* local best of job_multiframe
    connPc,           \* position of ConnectionMonitor.run
    \* history variables (not program state)
    eSeen,            \* what the position fetch of the running entry
                      \* evaluation reported: "open", "empty" or "failed"
    eLast,            \* when the last entry evaluation that passed its
                      \* gate began (0: none yet)
    obsMax,           \* trade_id -> greatest profit the monitor tracked
    scen,             \* trade_id -> how many tracked profits of the trade
                      \* there are, while they are the first of Scenario
    ePreds,           \* what the predictor gave the running entry
                      \* evaluation, (instrument, timeframe) -> pips, while
                      \* the evaluation holds a best signal (<<>> otherwise)
    cacheFor,         \* instrument -> id of the trade whose profit the
                      \* shared_risk_data entry was computed from
    okClose,          \* ids of the trades a close request of the trailing
                      \* monitor or of the risk job has closed
    \* test_modified_orders.py (a program of its own)
    best_prices_db,   \* trade_id -> best price reached
    dbPc,             \* position of monitor_trades_from_db
    dbQueue,          \* trade_data rows not yet visited in this cycle
    dbCur,            \* the row visited last, with the locals direction
                      \* and new_stoploss the visit computed
    \* the three profit computations applied to one trade record
    calc,             \* the record, the price and the three profits
    \* trade_profit_monitor.py: the bookkeeping of fetch_trade_data
    detected_open,    \* ids of the trades the last cycle listed
    trade_profits,    \* trade_id -> last snapshot of table trade_profits
    trade_history,    \* trade_id -> row of table trade_history
    \* test_stoploss.py (a program of its own)
    slPc,             \* position of the script
    slCall,           \* trade_id and new_stop_loss of the running call of
                      \* update_trade_stop_loss, and which call it is
    slFound,          \* whether step 1 found a stop-loss order
    slHad,            \* whether the trade had one when the call began
    slRet             \* what the last call returned

brokerVars == <<trades, nextId, price, now>>
trailVars == <<peaks, recently_closed, tPc, tQueue, tCur, tProfit, tOutcome>>
profitVars == <<pPc, pQueue>>
mainVars == <<mainPc, started, inRisk, rNow, enabled, active_trade,
              last_entry_time, entryNext, riskNext, best, connPc>>
histVars == <<eSeen, eLast, obsMax, scen, ePreds, cacheFor, okClose>>
dbVars == <<best_prices_db, dbPc, dbQueue, dbCur>>
calcVars == <<calc>>
bookVars == <<detected_open, trade_profits, trade_history>>
slVars == <<slPc, slCall, slFound, slHad, slRet>>
\* the state of the programs of src/ that main.py does not start, and what
\* only the specifications of single functions follow
scriptVars == <<dbVars, calcVars, bookVars, slVars>>
vars == <<brokerVars, trailVars, shared_risk_data, profitVars, mainVars,
          histVars, scriptVars>>

NoTrade == [id |-> 0, instrument |-> "", units |-> 0, price |-> 0]
NoProfit == -9999
\* no stop-loss price
NoStop == -99999
\* fetch_current_price returned None
NoPrice == -99998

\* ------------------------------------------------------------ the broker
RECURSIVE IdsToList(_)
IdsToList(S) ==
    IF S = {} THEN <<>>
    ELSE LET m == MinOf(S)
         IN <<[id |-> m, instrument |-> trades[m].instrument,
               units |-> trades[m].units, price |-> trades[m].price]>>
            \o IdsToList(S \ {m})

\* The trade list of GET /openTrades as the broker holds it now.
OpenTradeList == IdsToList(DOMAIN trades)

\* The broker drops a closed trade.
Without(f, k) == [x \in (DOMAIN f) \ {k} |-> f[x]]
Put(f, k, v) == [x \in (DOMAIN f) \cup {k} |-> IF x = k THEN v ELSE f[x]]

\* A market move of one instrument to one of the given levels (only
\* instruments with an open trade are followed; the price of the others
\* stays where it is).
PriceMoveIn(levels) ==
    /\ mainPc # "crashed"
    /\ \E inst \in Instruments, level \in levels :
        /\ \E i \in DOMAIN trades : trades[i].instrument = inst
        /\ price[inst] # PriceOf(inst, level)
        /\ price' = [price EXCEPT ![inst] = PriceOf(inst, level)]
        /\ UNCHANGED <<trades, nextId, now>>
        /\ UNCHANGED <<trailVars, shared_risk_data, profitVars, mainVars, histVars, scriptVars>>

PriceMove == PriceMoveIn(PipLevels)

\* -------------------------------------------- trailing_stoploss_helper.py
\* Variant: a cooldown of any instrument holds back every instrument (C25
\* depends on the lookup by instrument).
InCooldownAny(inst, rc, t) ==
    \E i \in DOMAIN rc : (t - rc[i]) < COOLDOWN_PERIOD

\* inst in recently_closed and (time.time() - recently_closed[inst]) < COOLDOWN_PERIOD
InCooldown(inst, rc, t) ==
    inst \in DOMAIN rc /\ (t - rc[inst]) < COOLDOWN_PERIOD

\* profit = ((current - entry) / pip_size) if units > 0 else ((entry - current) / pip_size)
TrailProfit(t, current) ==
    IF t.units > 0 THEN (current - t.price) \div PipSize(t.instrument)
    ELSE (t.price - current) \div PipSize(t.instrument)

\* Variant: take-profit without its boundary (C3 depends on `>=`).
ReachedTakeProfitStrict(profit) == profit > TAKE_PROFIT_PIPS

\* if profit >= TAKE_PROFIT_PIPS
ReachedTakeProfit(profit) == profit >= TAKE_PROFIT_PIPS

\* Variant: the peak follows the latest profit (C5 depends on the max).
NewPeakLatest(pk, tid, profit) == profit

\* Variant: the peak is forgotten when the profit falls back below the
\* activation threshold (C6 depends on the peak being kept).
NewPeakDisarming(pk, tid, profit) ==
    LET old_peak == IF tid \in DOMAIN pk THEN pk[tid] ELSE profit
    IN IF profit < ACTIVATION_THRESHOLD THEN profit ELSE Max(old_peak, profit)

\* old_peak = peaks.get(tid, profit); new_peak = max(old_peak, profit)
NewPeak(pk, tid, profit) ==
    LET old_peak == IF tid \in DOMAIN pk THEN pk[tid] ELSE profit
    IN Max(old_peak, profit)

\* Variant: the trailing gap without its boundary (C4 depends on `>=`).
RetracedStrictGap(new_peak, profit) ==
    new_peak >= ACTIVATION_THRESHOLD /\ (new_peak - profit) > TRAILING_GAP

\* Variant: an armed trade is closed whatever the retracement (C8 depends
\* on the gap test).
RetracedAnyGap(new_peak, profit) == new_peak >= ACTIVATION_THRESHOLD

\* if new_peak >= ACTIVATION_THRESHOLD: retrace = new_peak - profit;
\*     if retrace >= TRAILING_GAP: close
Retraced(new_peak, profit) ==
    new_peak >= ACTIVATION_THRESHOLD /\ (new_peak - profit) >= TRAILING_GAP

\* History: the greatest profit tracked for a trade since it was opened, and
\* the progress of its tracked profits along the example sequence (-1 once
\* they have left it).
Scenario == <<5, 25, 30, 18>>
ScenarioPeaks == <<5, 25, 30, 30>>
Tracked(om, tid, profit) ==
    IF tid \in DOMAIN om /\ om[tid] > profit THEN om[tid] ELSE profit
Matched(sc, tid, profit) ==
    LET k == IF tid \in DOMAIN sc THEN sc[tid] ELSE 0
    IN IF k >= 0 /\ k < Len(Scenario) /\ Scenario[k + 1] = profit
       THEN k + 1 ELSE -1

\* Where the for-loop goes after a trade: the next trade, or the sleep.
TrailNext(q) == IF q = <<>> THEN "sleep" ELSE "loop"

\* trades = fetch_open_trades(): the broker's list, or [] when the request
\* fails (fetch_open_trades catches the error).
TrailFetch ==
    /\ mainPc # "crashed"
    /\ tPc = "ready"
    /\ \E ok \in BOOLEAN :
        /\ tQueue' = IF ok THEN OpenTradeList ELSE <<>>
        /\ tPc' = TrailNext(tQueue')
    /\ tCur' = NoTrade /\ tProfit' = NoProfit /\ tOutcome' = "NONE"
    /\ UNCHANGED <<peaks, recently_closed, obsMax, scen>>
    /\ UNCHANGED <<brokerVars, shared_risk_data, profitVars, mainVars, eSeen, eLast,
                   ePreds, cacheFor, okClose, scriptVars>>

\* `continue` without a decision (cooldown, or no price).
TrailSkip(t, why) ==
    /\ tCur' = t /\ tProfit' = NoProfit /\ tOutcome' = why
    /\ tQueue' = Tail(tQueue) /\ tPc' = TrailNext(Tail(tQueue))
    /\ UNCHANGED <<peaks, recently_closed, obsMax, scen>>

\* Steps 1-4 of the loop body for trade t with the profit obtained.
TrailDecide(t, profit) ==
    /\ tCur' = t /\ tProfit' = profit
    /\ UNCHANGED recently_closed
    /\ IF ReachedTakeProfit(profit)
       THEN /\ tPc' = "close" /\ tOutcome' = "TAKE_PROFIT"
            /\ UNCHANGED <<peaks, tQueue, obsMax, scen>>
       ELSE LET new_peak == NewPeak(peaks, t.id, profit) IN
            /\ peaks' = Put(peaks, t.id, new_peak)
            /\ obsMax' = Put(obsMax, t.id, Tracked(obsMax, t.id, profit))
            /\ scen' = Put(scen, t.id, Matched(scen, t.id, profit))
            /\ IF Retraced(new_peak, profit)
               THEN /\ tPc' = "close" /\ tOutcome' = "TRAILING_STOP"
                    /\ UNCHANGED tQueue
               ELSE /\ tOutcome' = "HOLD"
                    /\ tQueue' = Tail(tQueue) /\ tPc' = TrailNext(Tail(tQueue))

\* One pass of the loop body up to the decision: cooldown check, profit
\* (shared value preferred, else computed from a fetched price), decision.
\* fetch_current_price returns a price, None, or raises (which ends the
\* thread: nothing in the monitor catches it).
TrailVisit ==
    /\ mainPc # "crashed"
    /\ tPc = "loop" /\ tQueue # <<>>
    /\ LET t == Head(tQueue) IN
       IF InCooldown(t.instrument, recently_closed, now)
       THEN TrailSkip(t, "COOLDOWN")
       ELSE IF t.instrument \in DOMAIN shared_risk_data
       THEN TrailDecide(t, shared_risk_data[t.instrument])
       ELSE \E r \in {"price", "none", "raise"} :
            CASE r = "price" ->
                   TrailDecide(t, TrailProfit(t, price[t.instrument]))
              [] r = "none" -> TrailSkip(t, "NO_PRICE")
              [] r = "raise" ->
                   /\ tPc' = "dead" /\ tCur' = t
                   /\ tProfit' = NoProfit /\ tOutcome' = "NO_PRICE"
                   /\ UNCHANGED <<peaks, recently_closed, tQueue, obsMax, scen>>
    /\ UNCHANGED <<brokerVars, shared_risk_data, profitVars, mainVars, eSeen, eLast,
                   ePreds, cacheFor, okClose, scriptVars>>

\* The same loop body in the two steps a thread switch can separate: lines
\* 86-105, which end with the profit in the local variable, and lines
\* 107-133, which decide on it.  No lock is held in between.
TrailGot(t, profit) ==
    /\ tCur' = t /\ tProfit' = profit /\ tOutcome' = "NONE"
    /\ tPc' = "judge"
    /\ UNCHANGED <<peaks, recently_closed, tQueue, obsMax, scen>>

TrailRead ==
    /\ mainPc # "crashed"
    /\ tPc = "loop" /\ tQueue # <<>>
    /\ LET t == Head(tQueue) IN
       IF InCooldown(t.instrument, recently_closed, now)
       THEN TrailSkip(t, "COOLDOWN")
       ELSE IF t.instrument \in DOMAIN shared_risk_data
       THEN TrailGot(t, shared_risk_data[t.instrument])
       ELSE \E r \in {"price", "none", "raise"} :
            CASE r = "price" ->
                   TrailGot(t, TrailProfit(t, price[t.instrument]))
              [] r = "none" -> TrailSkip(t, "NO_PRICE")
              [] r = "raise" ->
                   /\ tPc' = "dead" /\ tCur' = t
                   /\ tProfit' = NoProfit /\ tOutcome' = "NO_PRICE"
                   /\ UNCHANGED <<peaks, recently_closed, tQueue, obsMax, scen>>
    /\ UNCHANGED <<brokerVars, shared_risk_data, profitVars, mainVars, eSeen, eLast,
                   ePreds, cacheFor, okClose, scriptVars>>

TrailJudge ==
    /\ mainPc # "crashed"
    /\ tPc = "judge"
    /\ TrailDecide(tCur, tProfit)
    /\ UNCHANGED <<brokerVars, shared_risk_data, profitVars, mainVars, eSeen, eLast,
                   ePreds, cacheFor, okClose, scriptVars>>

\* close_trade_by_id, line 61: client.request(endpoint).  The broker closes
\* the trade, or the request raises (network error, or the trade is gone);
\* the exception is caught nowhere and ends the monitor thread.
TrailCloseRequest ==
    /\ mainPc # "crashed"
    /\ tPc = "close"
    /\ \E ok \in BOOLEAN :
        IF ok /\ tCur.id \in DOMAIN trades
        THEN /\ trades' = Without(trades, tCur.id)
             /\ tPc' = "closed"
        ELSE /\ tPc' = "dead"
             /\ UNCHANGED trades
    /\ UNCHANGED <<nextId, price, now>>
    /\ okClose' = okClose \cup (DOMAIN trades \ DOMAIN trades')
    /\ UNCHANGED <<peaks, recently_closed, tQueue, tCur, tProfit, tOutcome>>
    /\ UNCHANGED <<shared_risk_data, profitVars, mainVars, scriptVars>>
    /\ UNCHANGED <<eSeen, eLast, obsMax, scen, ePreds, cacheFor>>

\* Variant: the close leaves the cache entry in place (C7 depends on the
\* clear).
ClearNothing(data, inst) == data

\* shared_data.clear_predicted_profit: del shared_risk_data[instrument] if
\* it is there.
ClearPredictedProfit(data, inst) == Without(data, inst)

\* close_trade_by_id, lines 63-65, after the request returned.
TrailCloseDone ==
    /\ mainPc # "crashed"
    /\ tPc = "closed"
    /\ recently_closed' = Put(recently_closed, tCur.instrument, now)
    /\ peaks' = Without(peaks, tCur.id)
    /\ obsMax' = Without(obsMax, tCur.id) /\ scen' = Without(scen, tCur.id)
    /\ shared_risk_data' = ClearPredictedProfit(shared_risk_data, tCur.instrument)
    /\ tQueue' = Tail(tQueue) /\ tPc' = TrailNext(Tail(tQueue))
    /\ UNCHANGED <<tCur, tProfit, tOutcome>>
    /\ cacheFor' = Without(cacheFor, tCur.instrument)
    /\ UNCHANGED <<brokerVars, profitVars, mainVars, eSeen, eLast, ePreds, okClose, scriptVars>>

\* ------------------------------------------------ trade_profit_monitor.py
\* profit_pips = (current - entry) / pip_size
\*     if str(units).startswith('-') is False else (entry - current) / pip_size
MonitorProfit(t, current) ==
    IF ~(t.units < 0) THEN (current - t.price) \div PipSize(t.instrument)
    ELSE (t.price - current) \div PipSize(t.instrument)

ProfitNext(q) == IF q = <<>> THEN "sleep" ELSE "loop"

\* fetch_trade_data, lines 99-102: the trade list, or nothing on an error.
ProfitFetch ==
    /\ mainPc # "crashed"
    /\ pPc = "ready"
    /\ \E ok \in BOOLEAN :
        /\ pQueue' = IF ok THEN OpenTradeList ELSE <<>>
        /\ pPc' = ProfitNext(pQueue')
    /\ UNCHANGED <<brokerVars, trailVars, shared_risk_data, mainVars, histVars, scriptVars>>

\* fetch_trade_data, lines 103-125, for one trade: get_current_price (None
\* on any failure: skip), then update_predicted_profit.
ProfitVisit ==
    /\ mainPc # "crashed"
    /\ pPc = "loop" /\ pQueue # <<>>
    /\ LET tr == Head(pQueue) IN
       \E ok \in BOOLEAN :
          IF ok
          THEN /\ shared_risk_data' = Put(shared_risk_data, tr.instrument,
                                          MonitorProfit(tr, price[tr.instrument]))
               /\ cacheFor' = Put(cacheFor, tr.instrument, tr.id)
          ELSE UNCHANGED <<shared_risk_data, cacheFor>>
    /\ pQueue' = Tail(pQueue) /\ pPc' = ProfitNext(Tail(pQueue))
    /\ UNCHANGED <<brokerVars, trailVars, mainVars, eSeen, eLast, obsMax, scen,
                   ePreds, okClose, scriptVars>>


\* ------------------------------------------------------ risk_managment.py
NoActive == [trade_id |-> 0, instrument |-> "", entry_price |-> 0, side |-> ""]
NoBest == [instrument |-> "", timeframe |-> "", signal |-> "", predicted_pips |-> 0]

\* The last trade of the list on instrument inst (positions[inst] is
\* overwritten by every later trade on the same instrument).
RECURSIVE LastOn(_, _)
LastOn(list, inst) ==
    IF list[Len(list)].instrument = inst THEN list[Len(list)]
    ELSE LastOn(SubSeq(list, 1, Len(list) - 1), inst)

\* RiskManager.get_live_positions: what it leaves in self.active_trade for
\* the fetched list (next(iter(positions.values())), or None); the returned
\* dict is empty exactly when the list is.
LiveActive(list) ==
    IF list = <<>> THEN NoActive
    ELSE LET t == LastOn(list, list[1].instrument)
         IN [trade_id |-> t.id, instrument |-> t.instrument,
             entry_price |-> t.price,
             side |-> IF t.units > 0 THEN "long" ELSE "short"]

\* Variant: the entry job does not look at the positions (C1 depends on
\* the test).
NoLivePositionsUnchecked(list) == TRUE

\* `not rm.get_live_positions()`: the positions dict is empty.
NoLivePositions(list) == list = <<>>

\* profit = (cp - ep)/pip_size if side == 'long' else (ep - cp)/pip_size
RiskProfit(at, cp) ==
    IF at.side = "long" THEN (cp - at.entry_price) \div PipSize(at.instrument)
    ELSE (at.entry_price - cp) \div PipSize(at.instrument)

\* if profit >= 70.0 or profit <= -50.0
AutoClose(profit) == profit >= AUTO_CLOSE_TP \/ profit <= AUTO_CLOSE_SL

\* The broker's ids: an order is one transaction and its fill, which opens
\* the trade, the next one; orderFillTransaction.orderID is the former.
OrderIdOf(n) == 2 * n + 1
TradeIdOf(n) == 2 * n + 2

\* A scheduler that keeps its old timetable: the next run is one period
\* after the time the job was due, not after the time it ended.
MainAfterRiskCatchUp ==
    /\ mainPc' = "idle" /\ started' = TRUE
    /\ riskNext' = IF started THEN riskNext + RISK_EVERY ELSE riskNext
    /\ UNCHANGED entryNext

\* ---------------------------------------------------------------- main.py
\* What the main thread does when job_risk_management returns: the initial
\* run falls into the scheduler loop, a scheduled run is rescheduled.
MainAfterRisk ==
    /\ mainPc' = "idle" /\ started' = TRUE
    /\ riskNext' = IF started THEN now + RISK_EVERY ELSE riskNext
    /\ UNCHANGED entryNext

\* What the main thread does when job_multiframe returns: back in the risk
\* job (line 134, last_entry_time = now), on to the initial risk job, or
\* rescheduled.
MainAfterEntry ==
    IF inRisk
    THEN /\ last_entry_time' = rNow /\ rNow' = 0 /\ inRisk' = FALSE
         /\ MainAfterRisk
    ELSE /\ UNCHANGED <<last_entry_time, rNow, inRisk>>
         /\ IF started
            THEN /\ mainPc' = "idle" /\ entryNext' = now + ENTRY_EVERY
                 /\ UNCHANGED <<started, riskNext>>
            ELSE /\ mainPc' = "r_start"
                 /\ UNCHANGED <<started, entryNext, riskNext>>

\* Variant: job_multiframe without its gate on the connection flag (C31
\* depends on the gate).
EntryStartUngated ==
    /\ mainPc = "e_start"
    /\ \E ok \in BOOLEAN :
         LET list == IF ok THEN OpenTradeList ELSE <<>> IN
         /\ active_trade' = LiveActive(list)
         /\ mainPc' = IF NoLivePositions(list) THEN "e_signal" ELSE "e_log"
         /\ eSeen' = IF ~ok THEN "failed"
                     ELSE IF list = <<>> THEN "empty" ELSE "open"
         /\ eLast' = now
         /\ UNCHANGED <<started, inRisk, rNow, last_entry_time,
                        entryNext, riskNext>>
    /\ UNCHANGED <<enabled, best, connPc>>
    /\ UNCHANGED <<brokerVars, trailVars, shared_risk_data, profitVars, obsMax, scen,
                   ePreds, cacheFor, okClose, scriptVars>>

\* job_multiframe, lines 97-101: the gate, then rm.get_live_positions().
EntryStart ==
    /\ mainPc = "e_start"
    /\ IF ~enabled
       THEN /\ MainAfterEntry
            /\ UNCHANGED active_trade
            /\ eSeen' = "none" /\ UNCHANGED eLast
       ELSE \E ok \in BOOLEAN :
            LET list == IF ok THEN OpenTradeList ELSE <<>> IN
            /\ active_trade' = LiveActive(list)
            /\ mainPc' = IF NoLivePositions(list) THEN "e_signal" ELSE "e_log"
            /\ eSeen' = IF ~ok THEN "failed"
                        ELSE IF list = <<>> THEN "empty" ELSE "open"
            /\ eLast' = now
            /\ UNCHANGED <<started, inRisk, rNow, last_entry_time,
                           entryNext, riskNext>>
    /\ UNCHANGED <<enabled, best, connPc>>
    /\ UNCHANGED <<brokerVars, trailVars, shared_risk_data, profitVars, obsMax, scen,
                   ePreds, cacheFor, okClose, scriptVars>>

\* job_multiframe, line 118: the positions are fetched again for the log.
EntryLog ==
    /\ mainPc = "e_log"
    /\ \E ok \in BOOLEAN :
        active_trade' = LiveActive(IF ok THEN OpenTradeList ELSE <<>>)
    /\ MainAfterEntry
    /\ eSeen' = "none"
    /\ UNCHANGED <<enabled, best, connPc>>
    /\ UNCHANGED <<brokerVars, trailVars, shared_risk_data, profitVars, eLast,
                 obsMax, scen, ePreds, cacheFor, okClose, scriptVars>>


\* ---------------------------------------- pinhead_indicator.py (signals)
\* The predictor is a black box: for every (instrument, timeframe) it has
\* no opinion (generate_signal returns None) or predicts a number of pips.
NoPrediction == 9999
PredictedPips == {-60, 0, 40, 60}
Predictions == PredictedPips \cup {NoPrediction}
Pairs == Instruments \X {TIMEFRAMES[i] : i \in 1..Len(TIMEFRAMES)}
Abs(x) == IF x < 0 THEN -x ELSE x

\* sig = 'BUY' if profit_pips > BUY_THRESHOLD else 'SELL'
\*       if profit_pips < SELL_THRESHOLD else 'HOLD'
\* (the thresholds are +-0.003 pips: for whole pips, above or below 0)
SignalOf(pips) == IF pips > 0 THEN "BUY" ELSE IF pips < 0 THEN "SELL" ELSE "HOLD"

\* generate_multiframe_signal: the signals of one instrument, in timeframe
\* order, without the absent ones and the HOLD ones.
RECURSIVE MultiframeSignal(_, _, _)
MultiframeSignal(preds, inst, k) ==
    IF k > Len(TIMEFRAMES) THEN <<>>
    ELSE LET p == preds[<<inst, TIMEFRAMES[k]>>]
             sig == [instrument |-> inst, timeframe |-> TIMEFRAMES[k],
                     signal |-> SignalOf(p), predicted_pips |-> p]
         IN (IF p # NoPrediction /\ sig.signal # "HOLD" THEN <<sig>> ELSE <<>>)
            \o MultiframeSignal(preds, inst, k + 1)

\* all_signals of job_multiframe, in instrument order.
RECURSIVE AllSignals(_, _)
AllSignals(preds, i) ==
    IF i > Len(INSTRUMENTS) THEN <<>>
    ELSE MultiframeSignal(preds, INSTRUMENTS[i], 1) \o AllSignals(preds, i + 1)

\* A filter that lets every signal through.
IsViableAny(s) == TRUE

\* viable = [s for s in all_signals if abs(s['predicted_pips']) >= ENTRY_THRESHOLD_PIPS]
IsViable(s) == Abs(s.predicted_pips) >= ENTRY_THRESHOLD_PIPS
Viable(all) == SelectSeq(all, IsViable)

\* A selection that takes the last of the elements with the largest key.
BestOfLast(viable) ==
    LET i == CHOOSE j \in 1..Len(viable) :
                 /\ \A k \in 1..Len(viable) :
                        Abs(viable[k].predicted_pips) <= Abs(viable[j].predicted_pips)
                 /\ \A k \in (j + 1)..Len(viable) :
                        Abs(viable[k].predicted_pips) < Abs(viable[j].predicted_pips)
    IN viable[i]

\* best = max(viable, key=lambda x: abs(x['predicted_pips'])): the first
\* element whose key no other element exceeds.
BestOf(viable) ==
    LET i == CHOOSE j \in 1..Len(viable) :
                 /\ \A k \in 1..Len(viable) :
                        Abs(viable[k].predicted_pips) <= Abs(viable[j].predicted_pips)
                 /\ \A k \in 1..(j - 1) :
                        Abs(viable[k].predicted_pips) < Abs(viable[j].predicted_pips)
    IN viable[i]

\* The sides exchanged.
SideOfInverted(sig) == IF sig.signal = "BUY" THEN "short" ELSE "long"

\* side = 'long' if best['signal']=='BUY' else 'short'
SideOf(sig) == IF sig.signal = "BUY" THEN "long" ELSE "short"

\* job_multiframe, lines 102-116: collect the signals, keep the viable ones,
\* pick the best; without a viable one the job returns.
EntrySignalIn(predictions) ==
    /\ mainPc = "e_signal"
    /\ \E preds \in [Pairs -> predictions] :
        LET viable == Viable(AllSignals(preds, 1)) IN
        IF viable # <<>>
        THEN /\ best' = BestOf(viable)
             /\ ePreds' = preds
             /\ mainPc' = "e_confirm"
             /\ UNCHANGED eSeen
             /\ UNCHANGED <<started, inRisk, rNow, last_entry_time,
                            entryNext, riskNext>>
        ELSE /\ UNCHANGED <<best, ePreds>>
             /\ eSeen' = "none"
             /\ MainAfterEntry
    /\ UNCHANGED <<enabled, active_trade, connPc>>
    /\ UNCHANGED <<brokerVars, trailVars, shared_risk_data, profitVars, eLast,
                 obsMax, scen, cacheFor, okClose, scriptVars>>

EntrySignal == EntrySignalIn(Predictions)

\* The same with a predictor that has a viable BUY or no opinion.
CoarsePredictions == {60, NoPrediction}
EntrySignalCoarse == EntrySignalIn(CoarsePredictions)

\* The same with a predictor that gives both directions, two viable
\* magnitudes, a magnitude below the entry threshold and a HOLD.
RichPredictions == {-80, 0, 40, 60, 80, NoPrediction}
EntrySignalRich == EntrySignalIn(RichPredictions)

\* RiskManager.confirm_trade(best['instrument'], side): the price fetch may
\* return None (the order is given up) or raise; the order request may raise
\* (rejected, or no connection).  An exception leaves job_multiframe and the
\* scheduler loop: the main thread ends, and the process with it.  A filled
\* order opens a trade at the current price with its stop-loss and
\* take-profit attached.
EntryConfirm ==
    /\ mainPc = "e_confirm"
    /\ LET inst == best.instrument
           side == SideOf(best)
           pip_size == PipSize(inst)
           units == IF side = "long" THEN ORDER_SIZE ELSE -ORDER_SIZE
           p == price[inst]
           sl_price == IF side = "long" THEN p - SL_PIPS * pip_size
                       ELSE p + SL_PIPS * pip_size
           tp_price == IF side = "long" THEN p + TP_PIPS * pip_size
                       ELSE p - TP_PIPS * pip_size
       IN \E r \in {"filled", "noprice", "raise"} :
          CASE r = "filled" ->
                 /\ nextId <= MaxTrades
                 /\ trades' = Put(trades, TradeIdOf(nextId),
                                  [instrument |-> inst, units |-> units,
                                   price |-> p, sl |-> sl_price, tp |-> tp_price])
                 /\ nextId' = nextId + 1
                 /\ active_trade' = [trade_id |-> OrderIdOf(nextId),
                                     instrument |-> inst, entry_price |-> p,
                                     side |-> side]
                 /\ eSeen' = "none"
                 /\ MainAfterEntry
            [] r = "noprice" ->
                 /\ UNCHANGED <<trades, nextId, active_trade>>
                 /\ eSeen' = "none"
                 /\ MainAfterEntry
            [] r = "raise" ->
                 /\ mainPc' = "crashed"
                 /\ UNCHANGED <<trades, nextId, active_trade, started, inRisk,
                                rNow, last_entry_time, entryNext, riskNext,
                                eSeen>>
    /\ best' = NoBest /\ ePreds' = <<>>
    /\ UNCHANGED <<price, now, enabled, connPc>>
    /\ UNCHANGED <<trailVars, shared_risk_data, profitVars, eLast,
                 obsMax, scen, cacheFor, okClose, scriptVars>>


\* job_risk_management, lines 122-127: the gate, the price fetch
\* (get_current_price gives None on any failure) and
\* rm.update_all_positions(prices), whose close request may succeed, be
\* declined (status other than 200: logged only) or raise; active_trade is
\* forgotten whether or not the close succeeded.
RiskStart ==
    /\ mainPc = "r_start"
    /\ IF ~enabled
       THEN /\ MainAfterRisk
            /\ UNCHANGED <<trades, active_trade>>
       ELSE /\ UNCHANGED <<started, entryNext, riskNext>>
            /\ IF active_trade = NoActive
               THEN /\ mainPc' = "r_fetch"
                    /\ UNCHANGED <<trades, active_trade>>
               ELSE \E got \in BOOLEAN :
                    LET cp == price[active_trade.instrument]
                        tid == active_trade.trade_id
                    IN IF got /\ AutoClose(RiskProfit(active_trade, cp))
                       THEN \E r \in {"closed", "declined", "raise"} :
                            CASE r = "closed" ->
                                   /\ tid \in DOMAIN trades
                                   /\ trades' = Without(trades, tid)
                                   /\ active_trade' = NoActive
                                   /\ mainPc' = "r_fetch"
                              [] r = "declined" ->
                                   /\ UNCHANGED trades
                                   /\ active_trade' = NoActive
                                   /\ mainPc' = "r_fetch"
                              [] r = "raise" ->
                                   /\ UNCHANGED <<trades, active_trade>>
                                   /\ mainPc' = "crashed"
                       ELSE /\ mainPc' = "r_fetch"
                            /\ UNCHANGED <<trades, active_trade>>
    /\ okClose' = okClose \cup (DOMAIN trades \ DOMAIN trades')
    /\ UNCHANGED <<inRisk, rNow, last_entry_time, enabled, best, connPc>>
    /\ UNCHANGED <<nextId, price, now>>
    /\ UNCHANGED <<trailVars, shared_risk_data, profitVars, scriptVars>>
    /\ UNCHANGED <<eSeen, eLast, obsMax, scen, ePreds, cacheFor>>

\* job_risk_management, lines 129-134: without a live position, and
\* CONDITIONAL_INTERVAL after the last conditional entry, job_multiframe is
\* called.
RiskFetch ==
    /\ mainPc = "r_fetch"
    /\ \E ok \in BOOLEAN :
        LET list == IF ok THEN OpenTradeList ELSE <<>> IN
        /\ active_trade' = LiveActive(list)
        /\ IF NoLivePositions(list) /\ now - last_entry_time >= CONDITIONAL_INTERVAL
           THEN /\ rNow' = now /\ inRisk' = TRUE /\ mainPc' = "e_start"
                /\ UNCHANGED <<started, last_entry_time, entryNext, riskNext>>
           ELSE /\ MainAfterRisk
                /\ UNCHANGED <<rNow, inRisk, last_entry_time>>
    /\ UNCHANGED <<enabled, best, connPc>>
    /\ UNCHANGED <<brokerVars, trailVars, shared_risk_data, profitVars, histVars, scriptVars>>

\* Variant: a scheduler that starts a due job_multiframe on a thread of its
\* own, whatever the main thread is doing (C33 depends on run_pending
\* running the jobs in the thread that calls it).
SchedEntryConcurrent ==
    /\ mainPc # "crashed" /\ now >= entryNext
    /\ mainPc' = "e_start"
    /\ UNCHANGED <<started, inRisk, rNow, enabled, active_trade,
                   last_entry_time, entryNext, riskNext, best, connPc>>
    /\ UNCHANGED <<brokerVars, trailVars, shared_risk_data, profitVars, histVars, scriptVars>>

\* schedule.run_pending(): the due jobs run in the order of their next_run
\* (job_multiframe first when equal).
SchedEntry ==
    /\ mainPc = "idle" /\ now >= entryNext
    /\ (now >= riskNext => entryNext <= riskNext)
    /\ mainPc' = "e_start"
    /\ UNCHANGED <<started, inRisk, rNow, enabled, active_trade,
                   last_entry_time, entryNext, riskNext, best, connPc>>
    /\ UNCHANGED <<brokerVars, trailVars, shared_risk_data, profitVars, histVars, scriptVars>>

SchedRisk ==
    /\ mainPc = "idle" /\ now >= riskNext
    /\ (now >= entryNext => riskNext < entryNext)
    /\ mainPc' = "r_start"
    /\ UNCHANGED <<started, inRisk, rNow, enabled, active_trade,
                   last_entry_time, entryNext, riskNext, best, connPc>>
    /\ UNCHANGED <<brokerVars, trailVars, shared_risk_data, profitVars, histVars, scriptVars>>

\* ConnectionMonitor.run with check_connection: a successful check sets the
\* flag, a failed one clears it and enters reconnect().
ConnCheck ==
    /\ mainPc # "crashed" /\ connPc = "check"
    /\ \E ok \in BOOLEAN :
        IF ok THEN /\ enabled' = TRUE /\ UNCHANGED connPc
        ELSE /\ enabled' = FALSE /\ connPc' = "reconnect"
    /\ UNCHANGED <<mainPc, started, inRisk, rNow, active_trade,
                   last_entry_time, entryNext, riskNext, best>>
    /\ UNCHANGED <<brokerVars, trailVars, shared_risk_data, profitVars, histVars, scriptVars>>

\* reconnect(): retried until the broker answers; the flag is left alone.
Reconnect ==
    /\ mainPc # "crashed" /\ connPc = "reconnect"
    /\ \E ok \in BOOLEAN :
        connPc' = IF ok THEN "check" ELSE "reconnect"
    /\ UNCHANGED <<mainPc, started, inRisk, rNow, enabled, active_trade,
                   last_entry_time, entryNext, riskNext, best>>
    /\ UNCHANGED <<brokerVars, trailVars, shared_risk_data, profitVars, histVars, scriptVars>>

\* ------------------------------------------------- the broker, continued
\* The broker closes a trade whose attached stop-loss or take-profit price
\* the market has reached.
Triggered(t) ==
    IF t.units > 0
    THEN (t.sl # NoStop /\ price[t.instrument] <= t.sl)
         \/ price[t.instrument] >= t.tp
    ELSE (t.sl # NoStop /\ price[t.instrument] >= t.sl)
         \/ price[t.instrument] <= t.tp

BrokerStop ==
    /\ mainPc # "crashed"
    /\ \E i \in DOMAIN trades :
        /\ Triggered(trades[i])
        /\ trades' = Without(trades, i)
    /\ UNCHANGED <<nextId, price, now>>
    /\ UNCHANGED <<trailVars, shared_risk_data, profitVars, mainVars, histVars, scriptVars>>

\* POLL_INTERVAL seconds pass; the sleeps of the two monitor loops (60 s
\* each) end.
Tick ==
    /\ mainPc # "crashed"
    /\ now < Epoch + MaxTicks * POLL_INTERVAL
    /\ now' = now + POLL_INTERVAL
    /\ tPc' = IF tPc = "sleep" THEN "ready" ELSE tPc
    /\ pPc' = IF pPc = "sleep" THEN "ready" ELSE pPc
    /\ UNCHANGED <<trades, nextId, price>>
    /\ UNCHANGED <<peaks, recently_closed, tQueue, tCur, tProfit, tOutcome>>
    /\ UNCHANGED <<shared_risk_data, pQueue, mainVars, histVars, scriptVars>>

\* time.sleep(POLL_INTERVAL) of the trailing monitor returns (line 135); the
\* clock is not followed.
TrailWake ==
    /\ mainPc # "crashed"
    /\ tPc = "sleep"
    /\ tPc' = "ready"
    /\ UNCHANGED <<peaks, recently_closed, tQueue, tCur, tProfit, tOutcome>>
    /\ UNCHANGED <<brokerVars, shared_risk_data, profitVars, mainVars, histVars, scriptVars>>

\* ------------------------------------------------ test_modified_orders.py
\* A program of its own (started by hand, not by main.py) that works on the
\* rows of table trade_info.  No code of src/ writes that table; its
\* docstring gives the columns (trade_id, instrument, entry_price,
\* current_price, calculated_profit_pips) as populated by
\* trade_profit_monitor.py, so a row is taken to hold, for an open trade,
\* the current price and the profit as the profit monitor computes it.
\* units is not a column: it is kept in the row for the claims only.
TAKE_PROFIT_TARGET_PIPS == 50
PROFIT_THRESHOLD_PIPS == 20
TRAILING_BUFFER_PIPS == 5

NoRow == [trade_id |-> 0, instrument |-> "", entry_price |-> 0,
          current_price |-> 0, calculated_profit_pips |-> 0, units |-> 0]
\* No stop-loss level has been computed.
NoDbCur == [row |-> NoRow, direction |-> "", new_stoploss |-> NoStop]

\* monitor_trades_from_db before its first cycle.
DbStart ==
    /\ best_prices_db = <<>> /\ dbPc = "ready" /\ dbQueue = <<>>
    /\ dbCur = NoDbCur

TradeInfoRows ==
    [i \in 1..Len(OpenTradeList) |->
        LET t == OpenTradeList[i] IN
        [trade_id |-> t.id, instrument |-> t.instrument,
         entry_price |-> t.price, current_price |-> price[t.instrument],
         calculated_profit_pips |-> MonitorProfit(t, price[t.instrument]),
         units |-> t.units]]

\* direction = "long" if profit_pips >= 0 else "short"
DbDirection(profit_pips) == IF profit_pips >= 0 THEN "long" ELSE "short"

\* lines 177-183: the best price of the trade after this row.
DbBest(db, row, direction) ==
    IF row.trade_id \notin DOMAIN db THEN row.current_price
    ELSE IF direction = "long" /\ row.current_price > db[row.trade_id]
    THEN row.current_price
    ELSE IF direction = "short" /\ row.current_price < db[row.trade_id]
    THEN row.current_price
    ELSE db[row.trade_id]

\* lines 186-191: the new stop-loss level.
DbStopLoss(bestp, direction, inst) ==
    IF direction = "long" THEN bestp - TRAILING_BUFFER_PIPS * PipSize(inst)
    ELSE bestp + TRAILING_BUFFER_PIPS * PipSize(inst)

DbNext(q) == IF q = <<>> THEN "sleep" ELSE "loop"

\* load_trade_info_from_db: the rows, or [] on any error.
DbFetch ==
    /\ dbPc = "ready"
    /\ \E ok \in BOOLEAN :
        LET rows == IF ok THEN TradeInfoRows ELSE <<>> IN
        /\ dbQueue' = rows /\ dbPc' = DbNext(rows)
    /\ UNCHANGED <<best_prices_db, dbCur>>
    /\ UNCHANGED <<brokerVars, trailVars, shared_risk_data, profitVars,
                   mainVars, histVars, calcVars, bookVars, slVars>>

\* The loop body, lines 148-193, for one row.  At the take-profit target
\* the trade is closed (the request raises for a trade that is no longer
\* open, which ends the program) and its best price is dropped.  From the
\* trailing threshold on, the best price is updated and the new stop-loss
\* computed; the print that follows calls round_price, a name the module
\* does not define, so the NameError ends the program before
\* update_trade_stop_loss is reached.
DbVisit ==
    /\ dbPc = "loop" /\ dbQueue # <<>>
    /\ LET row == Head(dbQueue)
           profit_pips == row.calculated_profit_pips
           direction == DbDirection(profit_pips)
       IN
       IF profit_pips >= TAKE_PROFIT_TARGET_PIPS
       THEN /\ dbCur' = [row |-> row, direction |-> direction,
                         new_stoploss |-> NoStop]
            /\ IF row.trade_id \in DOMAIN trades
               THEN /\ trades' = Without(trades, row.trade_id)
                    /\ best_prices_db' = Without(best_prices_db, row.trade_id)
                    /\ dbQueue' = Tail(dbQueue) /\ dbPc' = DbNext(Tail(dbQueue))
               ELSE /\ dbPc' = "dead"
                    /\ UNCHANGED <<trades, best_prices_db, dbQueue>>
       ELSE IF profit_pips >= PROFIT_THRESHOLD_PIPS
       THEN LET bestp == DbBest(best_prices_db, row, direction) IN
            /\ best_prices_db' = Put(best_prices_db, row.trade_id, bestp)
            /\ dbCur' = [row |-> row, direction |-> direction,
                         new_stoploss |-> DbStopLoss(bestp, direction,
                                                     row.instrument)]
            /\ dbPc' = "dead"
            /\ UNCHANGED <<trades, dbQueue>>
       ELSE /\ dbCur' = [row |-> row, direction |-> direction,
                         new_stoploss |-> NoStop]
            /\ dbQueue' = Tail(dbQueue) /\ dbPc' = DbNext(Tail(dbQueue))
            /\ UNCHANGED <<trades, best_prices_db>>
    /\ UNCHANGED <<nextId, price, now>>
    /\ UNCHANGED <<trailVars, shared_risk_data, profitVars, mainVars, histVars,
                   calcVars, bookVars, slVars>>

\* time.sleep(MONITOR_INTERVAL_SECONDS) returns.
DbWake ==
    /\ dbPc = "sleep" /\ dbPc' = "ready"
    /\ UNCHANGED <<best_prices_db, dbQueue, dbCur>>
    /\ UNCHANGED <<brokerVars, trailVars, shared_risk_data, profitVars,
                   mainVars, histVars, calcVars, bookVars, slVars>>

\* ------------------------------------------------- test_trailing_stop.py
\* The same monitor written a second time, with trackers of its own.  Its
\* loop body and its close_trade_by_id are given here as functions of what
\* they read: the trackers, the cache, the trade, the price fetched (NoPrice
\* for None) and the time.
TEST_COOLDOWN_PERIOD == POLL_INTERVAL * 5

\* inst in recently_closed_trades and
\*     (time.time() - recently_closed_trades[inst]) < COOLDOWN_PERIOD
TestInCooldown(inst, rc, t) ==
    inst \in DOMAIN rc /\ (t - rc[inst]) < TEST_COOLDOWN_PERIOD

\* profit_pips = ((current_price - entry_price) / pip_size) if units > 0
\*     else ((entry_price - current_price) / pip_size)
TestProfit(t, current_price) ==
    IF t.units > 0 THEN (current_price - t.price) \div PipSize(t.instrument)
    ELSE (t.price - current_price) \div PipSize(t.instrument)

\* peaks[tid] = max(peaks.get(tid, profit_pips), profit_pips)
TestPeak(pk, tid, profit_pips) ==
    Max(IF tid \in DOMAIN pk THEN pk[tid] ELSE profit_pips, profit_pips)

\* Variant: the retracement test without the activation threshold.
TestRetracedUnarmed(peak, profit_pips) ==
    (peak - profit_pips) >= TRAILING_GAP

\* peaks[tid] >= ACTIVATION_THRESHOLD and
\*     (peaks[tid] - profit_pips) >= TRAILING_GAP
TestRetraced(peak, profit_pips) ==
    peak >= ACTIVATION_THRESHOLD /\ (peak - profit_pips) >= TRAILING_GAP

\* Lines 51-83 for trade t: what the body decides ("skip" for a `continue`
\* without a decision, "close" for a call of close_trade_by_id, "hold"
\* otherwise) and the peaks it leaves.
TestBody(pk, rc, data, t, fetched, time) ==
    IF TestInCooldown(t.instrument, rc, time)
    THEN [do |-> "skip", peaks |-> pk]
    ELSE IF t.instrument \notin DOMAIN data /\ fetched = NoPrice
    THEN [do |-> "skip", peaks |-> pk]
    ELSE LET profit_pips == IF t.instrument \in DOMAIN data
                            THEN data[t.instrument]
                            ELSE TestProfit(t, fetched)
         IN IF profit_pips >= TAKE_PROFIT_PIPS
            THEN [do |-> "close", peaks |-> pk]
            ELSE LET peak == TestPeak(pk, t.id, profit_pips) IN
                 [do |-> IF TestRetraced(peak, profit_pips)
                         THEN "close" ELSE "hold",
                  peaks |-> Put(pk, t.id, peak)]

\* close_trade_by_id, lines 34-36, after the request returned: the cooldown
\* entry, the peak and the cache entry.
TestClosed(pk, rc, data, tid, inst, time) ==
    [recently_closed_trades |-> Put(rc, inst, time),
     peaks |-> Without(pk, tid),
     shared_risk_data |-> ClearPredictedProfit(data, inst)]

\* ------------------------------------------ the three profit computations
\* The broker's trade record gives the units as a signed number; a record
\* may also come without the key.  Each reader falls back on a default:
\* tr.get("initialUnits", "") in fetch_trade_data (the empty text does not
\* start with '-', like the text of 0), t.get('currentUnits',
\* t.get('initialUnits', 0)) in the trailing monitor and
\* t.get('initialUnits', 0) in get_live_positions.
NoUnits == 99999
UnitsReported == {ORDER_SIZE, -ORDER_SIZE, 0, NoUnits}
UnitsOr(u, default) == IF u = NoUnits THEN default ELSE u

NoCalc == [instrument |-> "", units |-> 0, entry |-> 0, current |-> 0,
           monitor |-> NoProfit, trailing |-> NoProfit, risk |-> NoProfit]
CalcStart == calc = NoCalc

\* The trade record as a reader sees it.
RecordRead(inst, u, entry) ==
    [id |-> TradeIdOf(0), instrument |-> inst, units |-> UnitsOr(u, 0),
     price |-> entry]

\* One trade record and one current price given to fetch_trade_data (lines
\* 106-116), to the trailing monitor (lines 97-104) and to RiskManager
\* (get_live_positions, lines 65-73, then the profit of
\* update_all_positions).
CalcProfits ==
    /\ \E inst \in Instruments, u \in UnitsReported,
          e \in CoarseLevels, c \in CoarseLevels :
        LET t == RecordRead(inst, u, PriceOf(inst, e))
            cp == PriceOf(inst, c)
        IN calc' = [instrument |-> inst, units |-> u,
                    entry |-> t.price, current |-> cp,
                    monitor |-> MonitorProfit(t, cp),
                    trailing |-> TrailProfit(t, cp),
                    risk |-> RiskProfit(LiveActive(<<t>>), cp)]
    /\ UNCHANGED <<brokerVars, trailVars, shared_risk_data, profitVars,
                   mainVars, histVars, dbVars, bookVars, slVars>>

\* ----------------------- trade_profit_monitor.py: closures and snapshots
\* detected_open = set(); the two tables are empty in a new database.
BookStart ==
    /\ detected_open = {} /\ trade_profits = <<>> /\ trade_history = <<>>

\* lines 103-125: the rows appended to open_trades, one for each listed
\* trade whose price fetch gave a price (`continue` on None).  The amount
\* unrealized_pl_usd is not followed.
OpenTradeRows(listed, priced) ==
    LET kept == SelectSeq(listed, LAMBDA t : t.id \in priced) IN
    [i \in 1..Len(kept) |->
        [trade_id |-> kept[i].id, instrument |-> kept[i].instrument,
         calculated_profit_pips |->
             MonitorProfit(kept[i], price[kept[i].instrument])]]

\* update_predicted_profit(inst, profit_pips), row after row.
RECURSIVE SharedAfter(_, _)
SharedAfter(data, rows) ==
    IF rows = <<>> THEN data
    ELSE SharedAfter(Put(data, rows[1].instrument,
                         rows[1].calculated_profit_pips), Tail(rows))

\* History: the trade each cache entry was computed from, row after row.
RECURSIVE CacheForAfter(_, _)
CacheForAfter(cf, rows) ==
    IF rows = <<>> THEN cf
    ELSE CacheForAfter(Put(cf, rows[1].instrument, rows[1].trade_id),
                       Tail(rows))

\* update_trade_profits_database: INSERT OR REPLACE of one snapshot per row
\* (only the latest snapshot of a trade is ever read back).
RECURSIVE ProfitsAfter(_, _)
ProfitsAfter(table, rows) ==
    IF rows = <<>> THEN table
    ELSE ProfitsAfter(Put(table, rows[1].trade_id,
                          [instrument |-> rows[1].instrument,
                           profit_pips |-> rows[1].calculated_profit_pips]),
                      Tail(rows))

\* record_trade_history: for each closed id with a snapshot (`if row`),
\* INSERT OR REPLACE of its last snapshot as the final outcome.
RecordHistory(history, table, closed_ids) ==
    LET found == closed_ids \cap DOMAIN table IN
    [tid \in DOMAIN history \cup found |->
        IF tid \in found
        THEN [instrument |-> table[tid].instrument,
              final_profit_pips |-> table[tid].profit_pips]
        ELSE history[tid]]

\* One call of fetch_trade_data as a whole (lines 95-139): the trade list
\* (a failed request leaves open_trades = []), the loop over the listed
\* trades (a failed price fetch skips the trade), then closed_ids =
\* detected_open - current_ids, record_trade_history, detected_open =
\* current_ids and the snapshots; after it main() sleeps.
ProfitCycle ==
    /\ mainPc # "crashed"
    /\ pPc = "ready"
    /\ \E ok \in BOOLEAN, priced \in SUBSET DOMAIN trades :
        LET listed == IF ok THEN OpenTradeList ELSE <<>>
            open_trades == OpenTradeRows(listed, priced)
            current_ids == {open_trades[i].trade_id : i \in DOMAIN open_trades}
            closed_ids == detected_open \ current_ids
        IN /\ (~ok => priced = {})
           /\ shared_risk_data' = SharedAfter(shared_risk_data, open_trades)
           /\ cacheFor' = CacheForAfter(cacheFor, open_trades)
           /\ trade_history' = IF closed_ids # {}
                               THEN RecordHistory(trade_history, trade_profits,
                                                  closed_ids)
                               ELSE trade_history
           /\ detected_open' = current_ids
           /\ trade_profits' = ProfitsAfter(trade_profits, open_trades)
    /\ pPc' = "sleep"
    /\ UNCHANGED <<brokerVars, trailVars, pQueue, mainVars>>
    /\ UNCHANGED <<eSeen, eLast, obsMax, scen, ePreds, okClose>>
    /\ UNCHANGED <<dbVars, calcVars, slVars>>

\* --------------------------------------------------------- test_stoploss.py
\* A program of its own: it picks the first open trade and calls
\* update_trade_stop_loss twice, 20 seconds apart.  The broker keeps the
\* stop-loss order of a trade with the trade (field sl; NoStop when the
\* trade has none).
INITIAL_STOPLOSS_PIPS == 50
NEW_STOPLOSS_PIPS == 25
NoCall == [trade_id |-> 0, initial_stoploss |-> NoStop,
           new_stoploss |-> NoStop, n |-> 0]

SlStart ==
    /\ slPc = "start" /\ slCall = NoCall /\ slFound = FALSE
    /\ slHad = FALSE /\ slRet = "none"

\* if trade_units.startswith("-"): entry_price + pips * pip_size
\* else: entry_price - pips * pip_size
StopLossAt(t, pips) ==
    IF t.units < 0 THEN t.price + pips * PipSize(t.instrument)
    ELSE t.price - pips * PipSize(t.instrument)

\* the trade has a stop-loss order at the broker
HasStopLoss(tid) == tid \in DOMAIN trades /\ trades[tid].sl # NoStop

\* new_stop_loss of the running call
SlArgument == IF slCall.n = 1 THEN slCall.initial_stoploss
              ELSE slCall.new_stoploss

\* where the script is after a call returned: the sleep after the first,
\* the end after the second
SlAfterCall == IF slCall.n = 1 THEN "sleep" ELSE "done"

\* lines 145-177: get_open_trades() ([] on an error), the first trade, the
\* two stop-loss prices; the first call begins.
SlSelect ==
    /\ slPc = "start"
    /\ \E ok \in BOOLEAN :
        LET list == IF ok THEN OpenTradeList ELSE <<>> IN
        IF list = <<>>
        THEN /\ slPc' = "exit"
             /\ UNCHANGED <<slCall, slHad>>
        ELSE /\ slCall' = [trade_id |-> list[1].id,
                           initial_stoploss |->
                               StopLossAt(list[1], INITIAL_STOPLOSS_PIPS),
                           new_stoploss |->
                               StopLossAt(list[1], NEW_STOPLOSS_PIPS),
                           n |-> 1]
             /\ slHad' = HasStopLoss(list[1].id)
             /\ slPc' = "get"
    /\ UNCHANGED <<slFound, slRet>>
    /\ UNCHANGED <<brokerVars, trailVars, shared_risk_data, profitVars,
                   mainVars, histVars, dbVars, calcVars, bookVars>>

\* Step 1, lines 82-95: the trade details.  Another status than 200, or an
\* exception, returns False; otherwise stoploss_order_id is the id of the
\* trade's stop-loss order, if it has one.
SlGet ==
    /\ slPc = "get"
    /\ \E ok \in BOOLEAN :
        IF ok
        THEN /\ slFound' = HasStopLoss(slCall.trade_id)
             /\ slPc' = IF slFound' THEN "cancel" ELSE "create"
             /\ UNCHANGED slRet
        ELSE /\ slRet' = "False" /\ slPc' = SlAfterCall
             /\ UNCHANGED slFound
    /\ UNCHANGED <<slCall, slHad>>
    /\ UNCHANGED <<brokerVars, trailVars, shared_risk_data, profitVars,
                   mainVars, histVars, dbVars, calcVars, bookVars>>

\* Step 2, lines 98-111: PUT .../orders/{id}/cancel.  200 or 201: the order
\* is cancelled; 404: it is no longer there; another status: it stays, and
\* the creation is attempted all the same; an exception returns False.
SlCancel ==
    /\ slPc = "cancel"
    /\ \E r \in {"cancelled", "not_found", "refused", "raise"} :
        CASE r = "cancelled" ->
               /\ HasStopLoss(slCall.trade_id)
               /\ trades' = [trades EXCEPT ![slCall.trade_id].sl = NoStop]
               /\ slPc' = "create" /\ UNCHANGED slRet
          [] r = "not_found" ->
               /\ ~HasStopLoss(slCall.trade_id)
               /\ slPc' = "create" /\ UNCHANGED <<trades, slRet>>
          [] r = "refused" ->
               /\ slPc' = "create" /\ UNCHANGED <<trades, slRet>>
          [] r = "raise" ->
               /\ slRet' = "False" /\ slPc' = SlAfterCall
               /\ UNCHANGED trades
    /\ UNCHANGED <<nextId, price, now>>
    /\ UNCHANGED <<slCall, slFound, slHad>>
    /\ UNCHANGED <<trailVars, shared_risk_data, profitVars,
                   mainVars, histVars, dbVars, calcVars, bookVars>>

\* Step 3, lines 116-137: POST of the new STOP_LOSS order.  200 or 201: the
\* trade has the new order (in place of one a refused cancel left) and the
\* call returns True; another status or an exception: False.
SlCreate ==
    /\ slPc = "create"
    /\ \E ok \in BOOLEAN :
        IF ok /\ slCall.trade_id \in DOMAIN trades
        THEN /\ trades' = [trades EXCEPT ![slCall.trade_id].sl = SlArgument]
             /\ slRet' = "True"
        ELSE /\ UNCHANGED trades
             /\ slRet' = "False"
    /\ slPc' = SlAfterCall
    /\ UNCHANGED <<nextId, price, now>>
    /\ UNCHANGED <<slCall, slFound, slHad>>
    /\ UNCHANGED <<trailVars, shared_risk_data, profitVars,
                   mainVars, histVars, dbVars, calcVars, bookVars>>

\* lines 180-183: time.sleep(20) returns and the second call begins.
SlWake ==
    /\ slPc = "sleep"
    /\ slCall' = [slCall EXCEPT !.n = 2]
    /\ slHad' = HasStopLoss(slCall.trade_id)
    /\ slPc' = "get"
    /\ UNCHANGED <<slFound, slRet>>
    /\ UNCHANGED <<brokerVars, trailVars, shared_risk_data, profitVars,
                   mainVars, histVars, dbVars, calcVars, bookVars>>

\* The programs of src/ that main.py does not start, before their first
\* step.
ScriptsStart == DbStart /\ CalcStart /\ BookStart /\ SlStart

\* ------------------------------------------------------ the specification
\* A trade that the program opened at the given level (confirm_trade).
OpenedAt(inst, side, level) ==
    LET p == PriceOf(inst, level)
        pip_size == PipSize(inst)
    IN [instrument |-> inst,
        units |-> IF side = "long" THEN ORDER_SIZE ELSE -ORDER_SIZE,
        price |-> p,
        sl |-> IF side = "long" THEN p - SL_PIPS * pip_size
               ELSE p + SL_PIPS * pip_size,
        tp |-> IF side = "long" THEN p + TP_PIPS * pip_size
               ELSE p - TP_PIPS * pip_size]

\* The module-level state of the threads main() starts, and of the broker's
\* bookkeeping, when main() starts.
ThreadsStart ==
    /\ nextId = 1 /\ now = Epoch
    /\ peaks = <<>> /\ recently_closed = <<>>
    /\ tPc = "ready" /\ tQueue = <<>> /\ tCur = NoTrade
    /\ tProfit = NoProfit /\ tOutcome = "NONE"
    /\ shared_risk_data = <<>>
    /\ pPc = "ready" /\ pQueue = <<>>
    /\ enabled = TRUE /\ connPc = "check"
    /\ eSeen = "none" /\ eLast = 0 /\ obsMax = <<>> /\ scen = <<>>
    /\ ePreds = <<>> /\ cacheFor = <<>> /\ okClose = {} /\ ScriptsStart

\* The main thread at its first initial run.
MainStart ==
    /\ mainPc = "e_start" /\ started = FALSE /\ inRisk = FALSE /\ rNow = 0
    /\ active_trade = NoActive /\ last_entry_time = 0
    /\ entryNext = Epoch + ENTRY_EVERY /\ riskNext = Epoch + RISK_EVERY
    /\ best = NoBest

\* The main thread in the scheduler loop after its two initial runs on an
\* account with an open position: both runs have read the position, none
\* has placed an order.
MainIdle ==
    /\ mainPc = "idle" /\ started = TRUE /\ inRisk = FALSE /\ rNow = 0
    /\ active_trade = LiveActive(OpenTradeList) /\ last_entry_time = 0
    /\ entryNext = Epoch + ENTRY_EVERY /\ riskNext = Epoch + RISK_EVERY
    /\ best = NoBest

\* The whole program on an account without open trades.
Init ==
    /\ trades = <<>>
    /\ price = [i \in Instruments |-> PriceOf(i, 0)]
    /\ ThreadsStart /\ MainStart

Next ==
    \/ PriceMove \/ BrokerStop \/ Tick
    \/ TrailFetch \/ TrailVisit \/ TrailCloseRequest \/ TrailCloseDone
    \/ ProfitFetch \/ ProfitVisit
    \/ EntryStart \/ EntryLog \/ EntrySignal \/ EntryConfirm
    \/ RiskStart \/ RiskFetch \/ SchedEntry \/ SchedRisk
    \/ ConnCheck \/ Reconnect

Spec == Init /\ [][Next]_vars

\* The two monitor threads over several poll intervals, on an account that
\* holds one trade an earlier run of the program opened; the main thread
\* has done its initial runs and takes no further step.
InitMonitors ==
    /\ \E a \in {<<"EUR_USD", "long", 0>>, <<"USD_JPY", "short", 30>>} :
        /\ trades = (TradeIdOf(0) :> OpenedAt(a[1], a[2], a[3]))
        /\ price = [i \in Instruments |-> PriceOf(i, a[3])]
    /\ ThreadsStart /\ MainIdle

NextMonitors ==
    \/ PriceMove \/ BrokerStop \/ Tick
    \/ TrailFetch \/ TrailVisit \/ TrailCloseRequest \/ TrailCloseDone
    \/ ProfitFetch \/ ProfitVisit

SpecMonitors == InitMonitors /\ [][NextMonitors]_vars

\* The first cycle of the two monitor threads on an account that holds two
\* trades on the same instrument (both from before the start: their ids are
\* below those of the trades this run opens).
InitCycle ==
    /\ trades = (TradeIdOf(-2) :> OpenedAt("EUR_USD", "long", 0))
                @@ (TradeIdOf(0) :> OpenedAt("EUR_USD", "long", 5))
    /\ price = [i \in Instruments |-> PriceOf(i, 5)]
    /\ ThreadsStart /\ MainIdle

NextCycle ==
    \/ PriceMove \/ BrokerStop
    \/ TrailFetch \/ TrailVisit \/ TrailCloseRequest \/ TrailCloseDone
    \/ ProfitFetch \/ ProfitVisit

SpecCycle == InitCycle /\ [][NextCycle]_vars

\* One round of the scheduler, five minutes after the start, on an account
\* that holds one trade since before the start: both monitors have seen the
\* trade at its entry price and slept, the entry job has logged the open
\* position and the risk job has read it; now the sleeps have ended and one
\* of the two jobs is due.  The market jumps between the stop-loss level,
\* the entry level, an armed level and the take-profit level.
PriceJump == PriceMoveIn(CoarseLevels)

InitScheduled ==
    /\ trades = (TradeIdOf(0) :> OpenedAt("EUR_USD", "long", 0))
    /\ price = [i \in Instruments |-> PriceOf(i, 0)]
    /\ nextId = 1 /\ now = Epoch + ENTRY_EVERY
    /\ peaks = (TradeIdOf(0) :> 0) /\ recently_closed = <<>>
    /\ tPc = "ready" /\ tQueue = <<>> /\ tCur = OpenTradeList[1]
    /\ tProfit = 0 /\ tOutcome = "HOLD"
    /\ shared_risk_data = ("EUR_USD" :> 0)
    /\ pPc = "ready" /\ pQueue = <<>>
    /\ mainPc = "idle" /\ started = TRUE /\ inRisk = FALSE /\ rNow = 0
    /\ enabled = TRUE /\ active_trade = LiveActive(OpenTradeList)
    /\ last_entry_time = 0
    /\ \E due \in {"entry", "risk"} :
        /\ entryNext = IF due = "entry" THEN now ELSE now + RISK_EVERY
        /\ riskNext = IF due = "risk" THEN now ELSE now + RISK_EVERY
    /\ best = NoBest /\ connPc = "check"
    /\ eSeen = "none" /\ eLast = 0
    /\ obsMax = (TradeIdOf(0) :> 0) /\ scen = (TradeIdOf(0) :> -1)
    /\ ePreds = <<>> /\ cacheFor = ("EUR_USD" :> TradeIdOf(0))
    /\ okClose = {}
    /\ ScriptsStart

NextScheduled ==
    \/ PriceJump \/ BrokerStop
    \/ TrailFetch \/ TrailVisit \/ TrailCloseRequest \/ TrailCloseDone
    \/ ProfitFetch \/ ProfitVisit
    \/ EntryStart \/ EntryLog \/ EntrySignal \/ EntryConfirm
    \/ RiskStart \/ RiskFetch \/ SchedEntry \/ SchedRisk

SpecScheduled == InitScheduled /\ [][NextScheduled]_vars


\* The main thread from the start of main() and the heartbeat thread, over
\* several poll intervals, on an account without open trades; the market
\* stands still and the two monitor threads take no step.
NextJobs ==
    \/ Tick
    \/ EntryStart \/ EntryLog \/ EntrySignalCoarse \/ EntryConfirm
    \/ RiskStart \/ RiskFetch \/ SchedEntry \/ SchedRisk
    \/ ConnCheck \/ Reconnect

SpecJobs == Init /\ [][NextJobs]_vars

\* The first cycle of the two monitor threads with the heartbeat thread, on
\* an account that holds one trade; the main thread takes no step.
NextOutage ==
    \/ PriceMove \/ BrokerStop
    \/ TrailFetch \/ TrailVisit \/ TrailCloseRequest \/ TrailCloseDone
    \/ ProfitFetch \/ ProfitVisit
    \/ ConnCheck \/ Reconnect

SpecOutage == InitMonitors /\ [][NextOutage]_vars

\* The first cycle of the two monitor threads on an account that holds one
\* trade, with the trailing monitor's loop body in its two steps.
NextInterleaved ==
    \/ PriceMove \/ BrokerStop
    \/ TrailFetch \/ TrailRead \/ TrailJudge
    \/ TrailCloseRequest \/ TrailCloseDone
    \/ ProfitFetch \/ ProfitVisit

SpecInterleaved == InitMonitors /\ [][NextInterleaved]_vars

\* The trailing monitor thread cycle after cycle, without an end, on an
\* account that holds one trade.  The thread is scheduled again and again
\* and its sleep returns: each of its steps that stays possible is taken.
NextForever ==
    \/ PriceMove \/ BrokerStop
    \/ TrailFetch \/ TrailVisit \/ TrailCloseRequest \/ TrailCloseDone
    \/ TrailWake

SpecForever ==
    /\ InitMonitors /\ [][NextForever]_vars
    /\ WF_vars(TrailFetch) /\ WF_vars(TrailVisit)
    /\ WF_vars(TrailCloseRequest) /\ WF_vars(TrailCloseDone)
    /\ WF_vars(TrailWake)

\* The two monitor threads over several poll intervals on an account that
\* holds three trades from before the start, none with a stop the market
\* reaches: one on EUR_USD that is 70 pips in profit, one on USD_JPY and a
\* second one on EUR_USD, both at their entry price.  The market stands
\* still.
Unprotected(inst, side, level) ==
    [OpenedAt(inst, side, level) EXCEPT
        !.sl = PriceOf(inst, level - 1000 * (IF side = "long" THEN 1 ELSE -1)),
        !.tp = PriceOf(inst, level + 1000 * (IF side = "long" THEN 1 ELSE -1))]

InitCooldown ==
    /\ trades = (TradeIdOf(-3) :> Unprotected("EUR_USD", "long", 0))
                @@ (TradeIdOf(-2) :> Unprotected("USD_JPY", "short", 0))
                @@ (TradeIdOf(0) :> Unprotected("EUR_USD", "long", 70))
    /\ price = [i \in Instruments |->
                   IF i = "EUR_USD" THEN PriceOf(i, 70) ELSE PriceOf(i, 0)]
    /\ ThreadsStart /\ MainIdle

NextCooldown ==
    \/ Tick
    \/ TrailFetch \/ TrailVisit \/ TrailCloseRequest \/ TrailCloseDone
    \/ ProfitFetch \/ ProfitVisit

SpecCooldown == InitCooldown /\ [][NextCooldown]_vars

\* The two initial runs of the main thread (the entry job, then the risk job
\* with its re-triggered entry job) with the rich predictor, on an account
\* that is empty or holds one trade from before the start; the market
\* stands at one of two levels per instrument.
SelectLevels == {0, 30}

InitSelect ==
    /\ \E held \in BOOLEAN :
        trades = IF held THEN (TradeIdOf(0) :> OpenedAt("EUR_USD", "long", 0))
                 ELSE <<>>
    /\ \E lv \in [Instruments -> SelectLevels] :
        price = [i \in Instruments |-> PriceOf(i, lv[i])]
    /\ ThreadsStart /\ MainStart

NextSelect ==
    \/ EntryStart \/ EntryLog \/ EntrySignalRich \/ EntryConfirm
    \/ RiskStart \/ RiskFetch

SpecSelect == InitSelect /\ [][NextSelect]_vars

\* monitor_trades_from_db alone on an account that holds one trade, while
\* the market moves and the broker acts on the attached stops.
NextDb ==
    \/ PriceMove \/ BrokerStop
    \/ DbFetch \/ DbVisit \/ DbWake

SpecDb == InitMonitors /\ [][NextDb]_vars

\* One round of the scheduler as in InitScheduled, on an account whose one
\* EUR_USD trade, held since before the start, has no stop the market
\* reaches: the trade stays open until a task of the program closes it.
InitStays ==
    /\ trades = (TradeIdOf(0) :> Unprotected("EUR_USD", "long", 0))
    /\ price = [i \in Instruments |-> PriceOf(i, 0)]
    /\ nextId = 1 /\ now = Epoch + ENTRY_EVERY
    /\ peaks = (TradeIdOf(0) :> 0) /\ recently_closed = <<>>
    /\ tPc = "ready" /\ tQueue = <<>> /\ tCur = OpenTradeList[1]
    /\ tProfit = 0 /\ tOutcome = "HOLD"
    /\ shared_risk_data = ("EUR_USD" :> 0)
    /\ pPc = "ready" /\ pQueue = <<>>
    /\ mainPc = "idle" /\ started = TRUE /\ inRisk = FALSE /\ rNow = 0
    /\ enabled = TRUE /\ active_trade = LiveActive(OpenTradeList)
    /\ last_entry_time = 0
    /\ \E due \in {"entry", "risk"} :
        /\ entryNext = IF due = "entry" THEN now ELSE now + RISK_EVERY
        /\ riskNext = IF due = "risk" THEN now ELSE now + RISK_EVERY
    /\ best = NoBest /\ connPc = "check"
    /\ eSeen = "none" /\ eLast = 0
    /\ obsMax = (TradeIdOf(0) :> 0) /\ scen = (TradeIdOf(0) :> -1)
    /\ ePreds = <<>> /\ cacheFor = ("EUR_USD" :> TradeIdOf(0))
    /\ okClose = {}
    /\ ScriptsStart

NextStays ==
    \/ PriceJump
    \/ TrailFetch \/ TrailVisit \/ TrailCloseRequest \/ TrailCloseDone
    \/ ProfitFetch \/ ProfitVisit
    \/ EntryStart \/ EntryLog \/ EntrySignalCoarse \/ EntryConfirm
    \/ RiskStart \/ RiskFetch \/ SchedEntry \/ SchedRisk

SpecStays == InitStays /\ [][NextStays]_vars


\* The two monitor threads over several poll intervals on an account that
\* holds two EUR_USD trades from before the start, entered 5 pips apart,
\* none with a stop the market reaches, while the market moves between four
\* levels (the clock is not followed): the close of one starts a cooldown
\* that the visits of the other meet.
InitPair ==
    /\ trades = (TradeIdOf(-2) :> Unprotected("EUR_USD", "long", 0))
                @@ (TradeIdOf(0) :> Unprotected("EUR_USD", "long", 5))
    /\ price = [i \in Instruments |-> PriceOf(i, 5)]
    /\ ThreadsStart /\ MainIdle

PairLevels == {5, 18, 30, 70}
PriceStep == PriceMoveIn(PairLevels)

NextPair ==
    \/ PriceStep \/ TrailWake
    \/ TrailFetch \/ TrailVisit \/ TrailCloseRequest \/ TrailCloseDone
    \/ ProfitFetch \/ ProfitVisit

SpecPair == InitPair /\ [][NextPair]_vars

\* The three profit computations on trade records of every kind of units,
\* at entry and current prices between the stop-loss and the take-profit
\* level.
NextCalc == CalcProfits

SpecCalc == InitMonitors /\ [][NextCalc]_vars

\* The profit monitor alone, one whole call of fetch_trade_data per poll
\* interval, on an account that holds one trade, while the market moves and
\* the broker acts on the attached stops.
NextHistory ==
    \/ PriceMove \/ BrokerStop \/ Tick
    \/ ProfitCycle

SpecHistory == InitMonitors /\ [][NextHistory]_vars

\* test_stoploss.py alone on an account that holds one trade with its
\* stop-loss order, while the market moves and the broker acts on the
\* attached stops.
NextStopLoss ==
    \/ PriceJump \/ BrokerStop
    \/ SlSelect \/ SlGet \/ SlCancel \/ SlCreate \/ SlWake

SpecStopLoss == InitMonitors /\ [][NextStopLoss]_vars

\* ================================================================ claims
\* A position is in the hold case for a profit reading when the reading is
\* below the take-profit level and, with the stored peak raised to it, the
\* trailing condition is false.
HoldCase(tid, profit) ==
    LET pk == IF tid \in DOMAIN peaks /\ peaks[tid] > profit
              THEN peaks[tid] ELSE profit
    IN /\ profit < TAKE_PROFIT_PIPS
       /\ ~(pk >= ACTIVATION_THRESHOLD /\ pk - profit >= TRAILING_GAP)

\* C1: an entry evaluation (scheduled or re-triggered by the risk job) whose
\* position fetch reported an open position places no order; and when the
\* fetch succeeded, an order is placed only while the broker holds no trade.
\* (What a failed fetch leads to is not part of this statement.)
C1_NoOrderWhilePositionReported ==
    [][nextId' # nextId =>
          /\ eSeen # "open"
          /\ (eSeen = "empty" => trades = <<>>)]_vars

\* A re-triggered evaluation found the position open and goes to the log
\* line without an order.
C1_Witness ==
    /\ mainPc = "e_log" /\ inRisk /\ eSeen = "open"
    /\ trades # <<>> /\ nextId = 1

\* C2: an entry evaluation (one that found no position open) places no order
\* on an instrument while its cooldown runs, that is less than
\* COOLDOWN_PERIOD after the monitor closed a position on it.
C2_NoEntryDuringCooldown ==
    [][nextId' # nextId /\ eSeen = "empty" =>
          ~InCooldown(best.instrument, recently_closed, now)]_vars

\* C3: when the monitor visits a position with a profit at or above
\* TAKE_PROFIT_PIPS it goes to the close with reason TAKE_PROFIT and leaves
\* the peak records as they are (no peak update, no trailing evaluation).
C3_TakeProfitPrecedence ==
    [][TrailVisit /\ tProfit' # NoProfit /\ tProfit' >= TAKE_PROFIT_PIPS =>
          /\ tCur' = Head(tQueue)
          /\ tPc' = "close" /\ tOutcome' = "TAKE_PROFIT"
          /\ peaks' = peaks]_vars

\* A take-profit close at the boundary, decided over an armed stored peak.
C3_Witness ==
    /\ tPc = "close" /\ tOutcome = "TAKE_PROFIT"
    /\ tProfit = TAKE_PROFIT_PIPS
    /\ tCur.id \in DOMAIN peaks /\ peaks[tCur.id] >= ACTIVATION_THRESHOLD

\* C4: when the monitor visits a position with a profit below
\* TAKE_PROFIT_PIPS, it goes to the close (reason TRAILING_STOP) exactly when
\* the updated peak is at least ACTIVATION_THRESHOLD and exceeds the profit
\* by at least TRAILING_GAP; for the profits 5, 25, 30, 18 of one trade the
\* close comes at the fourth and not before.
C4_TrailingTrigger ==
    [][TrailVisit /\ tProfit' # NoProfit /\ tProfit' < TAKE_PROFIT_PIPS =>
          LET tid == tCur'.id IN
          /\ tid \in DOMAIN peaks'
          /\ (tPc' = "close" <=>
                 /\ peaks'[tid] >= ACTIVATION_THRESHOLD
                 /\ peaks'[tid] - tProfit' >= TRAILING_GAP)
          /\ (tPc' = "close" => tOutcome' = "TRAILING_STOP")
          /\ (scen'[tid] = Len(Scenario) => tPc' = "close")
          /\ (scen'[tid] \in 1..(Len(Scenario) - 1) => tPc' # "close")]_vars

\* The fourth profit of the example has just been decided.
C4_Witness ==
    /\ tPc = "close" /\ tOutcome = "TRAILING_STOP"
    /\ tCur.id \in DOMAIN scen /\ scen[tCur.id] = Len(Scenario)
    /\ peaks[tCur.id] = 30 /\ tProfit = 18

\* C5: the stored peak of a trade is the greatest profit tracked for it so
\* far (for the example profits: 5, 25, 30, 30), and it never decreases
\* while the record exists.
C5_PeakIsRunningMaximum ==
    [][\A tid \in DOMAIN peaks' :
          /\ tid \in DOMAIN obsMax' /\ peaks'[tid] = obsMax'[tid]
          /\ (scen'[tid] \in 1..Len(Scenario) =>
                 peaks'[tid] = ScenarioPeaks[scen'[tid]])
          /\ (tid \in DOMAIN peaks => peaks'[tid] >= peaks[tid])]_vars

\* A lower profit was tracked after the peak and the peak stayed.
C5_Witness ==
    /\ tOutcome = "HOLD" /\ tCur.id \in DOMAIN peaks
    /\ peaks[tCur.id] = 30 /\ tProfit = 25

\* C6: a stored peak at or above ACTIVATION_THRESHOLD stays at or above it
\* until the record is deleted, which happens only when the monitor has
\* closed that trade; and an armed trade is closed on its retracement even
\* when the profit is below ACTIVATION_THRESHOLD.
C6_ArmedUntilClosed ==
    [][/\ \A tid \in DOMAIN peaks : peaks[tid] >= ACTIVATION_THRESHOLD =>
             IF tid \in DOMAIN peaks'
             THEN peaks'[tid] >= ACTIVATION_THRESHOLD
             ELSE tPc = "closed" /\ tCur.id = tid /\ tid \notin DOMAIN trades
       /\ (/\ TrailVisit /\ tProfit' # NoProfit
           /\ tProfit' < TAKE_PROFIT_PIPS
           /\ tCur'.id \in DOMAIN peaks
           /\ peaks[tCur'.id] >= ACTIVATION_THRESHOLD
           /\ peaks[tCur'.id] - tProfit' >= TRAILING_GAP
           => tPc' = "close")]_vars

\* An armed trade held while its profit is back below the threshold.
C6_Witness ==
    /\ tOutcome = "HOLD" /\ tCur.id \in DOMAIN peaks
    /\ peaks[tCur.id] >= ACTIVATION_THRESHOLD
    /\ tProfit < ACTIVATION_THRESHOLD

\* C7: when close_trade_by_id of the monitor returns after the broker closed
\* trade T on instrument X, recently_closed[X] is the time of the close, T
\* has no peak record and X has no entry in the shared profit cache.
C7_ClosePostState ==
    [][tPc = "closed" /\ tPc' # "closed" =>
          /\ tCur.id \notin DOMAIN trades'
          /\ tCur.instrument \in DOMAIN recently_closed'
          /\ recently_closed'[tCur.instrument] = now
          /\ tCur.id \notin DOMAIN peaks'
          /\ tCur.instrument \notin DOMAIN shared_risk_data']_vars

\* The monitor has closed a trade on its trailing stop and gone to sleep.
C7_Witness ==
    /\ tPc = "sleep" /\ tOutcome = "TRAILING_STOP"
    /\ tCur.id \notin DOMAIN trades
    /\ tCur.instrument \in DOMAIN recently_closed
    /\ recently_closed[tCur.instrument] = now
    /\ tCur.id \notin DOMAIN peaks
    /\ tCur.instrument \notin DOMAIN shared_risk_data

\* C8 (as amended): when the monitor visits a position in the hold case, the
\* monitor issues no close, and the visit changes nothing but the peak
\* record of that position: trades, cooldowns and the profit cache are as
\* before.
C8_MonitorHoldOnlyMovesPeak ==
    [][TrailVisit /\ tProfit' # NoProfit /\ HoldCase(tCur'.id, tProfit') =>
          /\ tPc' # "close" /\ tOutcome' = "HOLD"
          /\ trades' = trades
          /\ recently_closed' = recently_closed
          /\ shared_risk_data' = shared_risk_data
          /\ DOMAIN peaks' = DOMAIN peaks \cup {tCur'.id}
          /\ \A tid \in DOMAIN peaks \ {tCur'.id} : peaks'[tid] = peaks[tid]]_vars

\* An armed position held, with its profit taken from the cache.
C8_Witness ==
    /\ tPc = "sleep" /\ tOutcome = "HOLD"
    /\ tCur.id \in DOMAIN peaks /\ peaks[tCur.id] >= ACTIVATION_THRESHOLD
    /\ tCur.instrument \in DOMAIN shared_risk_data
    /\ tCur.id \in DOMAIN trades

\* C8 (as stated): no task closes a position that is in the hold case for
\* the profit the task has read: neither the monitor nor the risk job.
C8_NoTaskClosesHeldPosition ==
    [][\A tid \in DOMAIN trades \ DOMAIN trades' :
          /\ (tPc = "close" /\ tPc' = "closed" => ~HoldCase(tid, tProfit))
          /\ (mainPc = "r_start" /\ mainPc' = "r_fetch" =>
                 ~HoldCase(tid, RiskProfit(active_trade,
                                           price[active_trade.instrument])))]_vars

\* C9: every position of the fetched list that is still open is evaluated
\* in the cycle: the monitor skips none of them for a cooldown.
C9_EveryOpenPositionEvaluated ==
    [][TrailVisit /\ tCur'.id \in DOMAIN trades' =>
          tOutcome' # "COOLDOWN"]_vars

\* C10: when the close request fails and the trade is still open, the
\* monitor goes on with its loop (the next position, or the sleep before the
\* next cycle).
C10_MonitorSurvivesCloseFailure ==
    [][tPc = "close" /\ tPc' # "close" /\ tCur.id \in DOMAIN trades' =>
          tPc' \in {"loop", "sleep"}]_vars

\* C11: no failure ends the process: whatever an order placement, a price
\* fetch or a position fetch does inside the entry job or the risk job, the
\* main thread is still in its scheduler loop.
C11_NoFailureCrashesProcess == mainPc # "crashed"

\* C12: an entry evaluation whose position fetch failed places no order and
\* leaves RiskManager.active_trade as it was.
C12_FailedFetchNeverEnters ==
    [][/\ (nextId' # nextId => eSeen # "failed")
       /\ (mainPc = "e_start" /\ eSeen' = "failed" =>
              active_trade' = active_trade /\ mainPc' # "e_signal")]_vars

\* C13: a visit of the trailing monitor that gets no price (no quote, or a
\* failed request) changes no peak, no cooldown entry and no trade, and the
\* monitor goes on with the next position or the next cycle.
C13_PriceFailureSkipsPosition ==
    [][TrailVisit /\ tOutcome' = "NO_PRICE" =>
          /\ tPc' \in {"loop", "sleep"}
          /\ peaks' = peaks /\ recently_closed' = recently_closed
          /\ trades' = trades]_vars

\* C14: a close or open request that the broker declines or fails leaves
\* the peaks, the cooldown entries, the profit cache and
\* RiskManager.active_trade as they were: in the trailing monitor's close, in
\* the entry job's order and in the risk job's close.
C14_RejectionLeavesLocalState ==
    [][/\ (tPc = "close" /\ tPc' # "close" /\ trades' = trades =>
              UNCHANGED <<peaks, recently_closed, shared_risk_data,
                          active_trade>>)
       /\ (mainPc = "e_confirm" /\ mainPc' # "e_confirm" /\ nextId' = nextId =>
              UNCHANGED <<peaks, recently_closed, shared_risk_data,
                          active_trade>>)
       /\ (mainPc = "r_start" /\ mainPc' # "r_start" /\ trades' = trades =>
              UNCHANGED <<peaks, recently_closed, shared_risk_data,
                          active_trade>>)]_vars

\* C15: no evaluation starts while the supervisor is DISCONNECTED: no cycle
\* of the trailing-stop monitor, and no entry job or risk job gets past its
\* first line.
C15_NoEvaluationWhileDisconnected ==
    [][(\/ TrailFetch
        \/ (mainPc = "e_start" /\ mainPc' \in {"e_signal", "e_log"})
        \/ (mainPc = "r_start" /\ mainPc' \in {"r_fetch", "crashed"}))
       => enabled]_vars

\* C16: the successful reachability check that follows the failed ones
\* leaves the supervisor CONNECTED: when the retry loop ends on a successful
\* check, enabled is True.
C16_SuccessfulRetryConnects ==
    [][connPc = "reconnect" /\ connPc' = "check" => enabled']_vars

\* C17: while DISCONNECTED the supervisor keeps retrying: the heartbeat
\* thread is able to take its next step (a check or a retry), so that a
\* reachable broker is eventually seen.
C17_SupervisorKeepsRetrying ==
    ~enabled => ENABLED (ConnCheck \/ Reconnect)

\* C18: a job of the main thread starts from the scheduler loop only when
\* it is due; an invocation that finds the supervisor DISCONNECTED returns
\* at once, with no order, no close and no change of active_trade; and when
\* a scheduled invocation returns, skipped or not, the next run of that job
\* is a full period ahead, so that a missed cycle is never run later as
\* catch-up and a job runs at most once per period.
C18_MissedCyclesNotReplayed ==
    [][/\ (mainPc = "idle" /\ mainPc' = "e_start" => now >= entryNext)
       /\ (mainPc = "idle" /\ mainPc' = "r_start" => now >= riskNext)
       /\ (mainPc \in {"e_start", "r_start"} /\ ~enabled /\ mainPc' # mainPc =>
              /\ mainPc' \in {"idle", "r_start"}
              /\ UNCHANGED <<trades, nextId, active_trade>>)
       /\ (started /\ ~inRisk /\ mainPc \in {"e_start", "e_log", "e_signal",
                                            "e_confirm"}
           /\ mainPc' = "idle" =>
              entryNext' >= now + ENTRY_EVERY)
       /\ (started /\ (inRisk \/ mainPc \in {"r_start", "r_fetch"})
           /\ mainPc' = "idle" =>
              riskNext' >= now + RISK_EVERY)]_vars

\* The supervisor is CONNECTED again after every risk job up to now, the
\* initial one and the scheduled ones, was skipped (a risk job that passes
\* its gate on this account re-triggers the entry job and sets
\* last_entry_time); the last skipped scheduled run has just returned and
\* the job is not due.
C18_Witness ==
    /\ mainPc = "idle" /\ started /\ enabled
    /\ nextId = 1 /\ last_entry_time = 0
    /\ now >= Epoch + 2 * RISK_EVERY
    /\ riskNext = now + RISK_EVERY

\* C19: the risk job calls job_multiframe only when no position is open at
\* the broker and at least CONDITIONAL_INTERVAL seconds have passed since
\* the last entry evaluation began, whoever started it.
C19_RetriggerDebounced ==
    [][mainPc = "r_fetch" /\ mainPc' = "e_start" =>
          /\ trades = <<>>
          /\ now - eLast >= CONDITIONAL_INTERVAL]_vars

\* C20: an order is placed only when no position is open at the broker at
\* that moment, as a re-read of the positions before the order would show.
C20_NoOrderWhilePositionOpen ==
    [][nextId' # nextId => trades = <<>>]_vars

\* C21: when the program closes the position on an instrument, the entry
\* of that instrument is gone from the profit cache once the close has
\* returned: after the trailing monitor's close, and after the risk job's.
C21_CacheClearedAtClose ==
    [][/\ (tPc = "closed" /\ tPc' # "closed" =>
              tCur.instrument \notin DOMAIN shared_risk_data')
       /\ (mainPc = "r_start" /\ mainPc' = "r_fetch" /\ trades' # trades =>
              active_trade.instrument \notin DOMAIN shared_risk_data')]_vars

\* C22: between the trailing monitor's read of a trade's profit and the
\* decision it takes on it, no step of another task changes the peak records
\* or the profit cache entry of the trade's instrument.
C22_AtomicEvaluation ==
    [][tPc = "judge" /\ tPc' = "judge" =>
          LET inst == tCur.instrument IN
          /\ peaks' = peaks
          /\ (inst \in DOMAIN shared_risk_data') = (inst \in DOMAIN shared_risk_data)
          /\ (inst \in DOMAIN shared_risk_data =>
                 shared_risk_data'[inst] = shared_risk_data[inst])]_vars

\* C23: a close that the risk job issues targets a trade that is open at
\* the broker, as a position fetch made in the same run of the job before
\* the close would have reported it.
C23_RiskCloseTargetsOpenTrade ==
    [][mainPc = "r_start" /\ (active_trade' # active_trade \/ mainPc' = "crashed") =>
          active_trade.trade_id \in DOMAIN trades]_vars

\* C24: while the trailing monitor thread lives, the peak record of a trade
\* that is no longer open at the broker is removed at some later time.
C24_PeakDiscardedAtClose ==
    \/ <>(tPc = "dead")
    \/ ((TradeIdOf(0) \in DOMAIN peaks /\ TradeIdOf(0) \notin DOMAIN trades)
           ~> (TradeIdOf(0) \notin DOMAIN peaks))

\* C25: the trailing monitor skips a trade for a cooldown exactly when its
\* own instrument has a cooldown entry younger than COOLDOWN_PERIOD, whatever
\* the entries of other instruments are; and a cooldown entry changes only
\* when the monitor has closed a trade of that instrument, to the time of
\* that close.
C25_CooldownLocalAndExpires ==
    [][/\ (TrailVisit =>
              (tOutcome' = "COOLDOWN") =
                  (/\ tCur'.instrument \in DOMAIN recently_closed
                   /\ now - recently_closed[tCur'.instrument] < COOLDOWN_PERIOD))
       /\ (recently_closed' # recently_closed =>
              /\ tPc = "closed"
              /\ recently_closed' = Put(recently_closed, tCur.instrument, now))]_vars

\* A trade is evaluated though its instrument has a cooldown entry: the
\* entry is COOLDOWN_PERIOD old or older.
C25_Witness ==
    /\ tOutcome = "HOLD" /\ tCur.id \in DOMAIN trades
    /\ tCur.instrument \in DOMAIN recently_closed
    /\ now - recently_closed[tCur.instrument] >= COOLDOWN_PERIOD

\* A trade of another instrument is evaluated while a cooldown is running.
C25_WitnessOtherInstrument ==
    /\ tOutcome = "HOLD" /\ tCur.instrument = "USD_JPY"
    /\ InCooldown("EUR_USD", recently_closed, now)

\* The position of an (instrument, timeframe) pair in the evaluation order
\* of job_multiframe: instruments in list order, timeframes within.
IndexIn(seq, x) == CHOOSE i \in 1..Len(seq) : seq[i] = x
PairOrder(pr) == (IndexIn(INSTRUMENTS, pr[1]) - 1) * Len(TIMEFRAMES)
                 + IndexIn(TIMEFRAMES, pr[2])

\* A prediction of the running evaluation that is present, not a HOLD and
\* at least ENTRY_THRESHOLD_PIPS in size.
Survives(pr) ==
    /\ ePreds[pr] # NoPrediction
    /\ ePreds[pr] # 0
    /\ Abs(ePreds[pr]) >= ENTRY_THRESHOLD_PIPS

\* The pair of the selected candidate.
BestPair == <<best.instrument, best.timeframe>>

\* C26: the candidate the entry job selects is one of the surviving
\* predictions, no surviving prediction has a larger |predicted_pips|, and
\* every surviving prediction earlier in the evaluation order (instrument
\* list order, then timeframe order) has a strictly smaller one; the
\* selection is thus a function of the candidate list.
C26_BestIsFirstMaximum ==
    mainPc = "e_confirm" =>
        /\ BestPair \in Pairs
        /\ Survives(BestPair)
        /\ best.predicted_pips = ePreds[BestPair]
        /\ \A q \in Pairs :
              Survives(q) =>
                /\ Abs(ePreds[q]) <= Abs(best.predicted_pips)
                /\ (PairOrder(q) < PairOrder(BestPair)
                      => Abs(ePreds[q]) < Abs(best.predicted_pips))

\* A selection among three survivors: a smaller one earlier in the order
\* and one of the same size, in the other direction, later in the order.
C26_Witness ==
    /\ mainPc = "e_confirm"
    /\ \E q, r \in Pairs :
        /\ Survives(q) /\ Survives(r)
        /\ PairOrder(q) < PairOrder(BestPair)
        /\ PairOrder(BestPair) < PairOrder(r)
        /\ Abs(ePreds[q]) < Abs(best.predicted_pips)
        /\ ePreds[r] = -best.predicted_pips

\* C27: the candidate an entry evaluation selects, and the one an order is
\* placed for, is neither a HOLD nor below ENTRY_THRESHOLD_PIPS in size;
\* an evaluation in which no prediction survives leaves the job without
\* an order.
C27_OnlySurvivorsAreOrdered ==
    [][/\ (mainPc = "e_signal" /\ mainPc' = "e_confirm"
            => /\ best'.signal \in {"BUY", "SELL"}
               /\ Abs(best'.predicted_pips) >= ENTRY_THRESHOLD_PIPS)
       /\ (mainPc = "e_signal" /\ mainPc' # "e_confirm"
            => trades' = trades /\ nextId' = nextId /\ best' = NoBest)
       /\ (nextId' # nextId
            => /\ mainPc = "e_confirm"
               /\ best.signal \in {"BUY", "SELL"}
               /\ Abs(best.predicted_pips) >= ENTRY_THRESHOLD_PIPS
               /\ Survives(BestPair))]_vars

\* A selection made while the predictor also gave a HOLD and a prediction
\* below the threshold, both earlier in the order than the selected one.
C27_Witness ==
    /\ mainPc = "e_confirm"
    /\ \E q, r \in Pairs :
        /\ ePreds[q] = 0
        /\ ePreds[r] # NoPrediction /\ ePreds[r] # 0
        /\ Abs(ePreds[r]) < ENTRY_THRESHOLD_PIPS
        /\ PairOrder(q) < PairOrder(BestPair)
        /\ PairOrder(r) < PairOrder(BestPair)

\* C28: the order placed for the selected candidate has +ORDER_SIZE units
\* exactly for a BUY and -ORDER_SIZE units exactly for a SELL, and the
\* trade it opens carries both protective prices from the start: for a
\* long trade stop-loss < price < take-profit, for a short trade
\* take-profit < price < stop-loss.
C28_SideAndProtection ==
    [][nextId' # nextId =>
        /\ TradeIdOf(nextId) \notin DOMAIN trades
        /\ TradeIdOf(nextId) \in DOMAIN trades'
        /\ LET t == trades'[TradeIdOf(nextId)] IN
            /\ t.instrument = best.instrument
            /\ t.units \in {ORDER_SIZE, -ORDER_SIZE}
            /\ (best.signal = "BUY") = (t.units = ORDER_SIZE)
            /\ (best.signal = "SELL") = (t.units = -ORDER_SIZE)
            /\ (active_trade'.side = "long") = (t.units > 0)
            /\ t.units > 0 => t.sl < t.price /\ t.price < t.tp
            /\ t.units < 0 => t.tp < t.price /\ t.price < t.sl]_vars

\* A short trade and a long trade, both opened by the entry job.
C28_Witness ==
    /\ nextId = 3
    /\ \E a, b \in DOMAIN trades :
        /\ trades[a].units = -ORDER_SIZE /\ trades[a].price < trades[a].sl
        /\ trades[b].units = ORDER_SIZE /\ trades[b].price > trades[b].sl

\* C29: whenever the trailing monitor takes the profit of the trade it
\* visits from shared_risk_data, and that trade is the one open trade of
\* its instrument, the entry it reads was written by the profit monitor
\* for that very trade (not for an earlier trade on the same instrument).
C29_CachedProfitIsOfTheTrade ==
    [][TrailVisit /\ tProfit' # NoProfit
           /\ tCur'.instrument \in DOMAIN shared_risk_data
           /\ (\A x \in DOMAIN trades :
                 trades[x].instrument = tCur'.instrument => x = tCur'.id)
       => cacheFor[tCur'.instrument] = tCur'.id]_vars

\* C30: the direction a component computes a trailing stop with is the
\* side of the trade (the sign of its units); here for
\* monitor_trades_from_db: whenever it has computed a new stop-loss for a
\* row, the direction it used is long exactly when the trade's units are
\* positive.
C30_DirectionIsRecordedSide ==
    dbCur.new_stoploss # NoStop =>
        dbCur.direction = (IF dbCur.row.units > 0 THEN "long" ELSE "short")

\* The case the claim names: a short trade in profit treated as long, with
\* a stop-loss computed below the market.
C30_ShortInProfitAsLong ==
    /\ dbCur.row.units < 0
    /\ dbCur.row.calculated_profit_pips >= PROFIT_THRESHOLD_PIPS
    /\ dbCur.direction = "long"
    /\ dbCur.new_stoploss # NoStop
    /\ dbCur.new_stoploss < dbCur.row.current_price

\* C31: a job of the main thread that finds the connection flag false when
\* it is invoked returns at once: no position or price fetch and no
\* prediction is made (the job is back in the scheduler or in its caller
\* after the one step, no evaluation is recorded), no trade is opened or
\* closed, rm.active_trade and the selection are left alone, and
\* last_entry_time is left alone by the job; only when job_multiframe was
\* called by a risk job (which had passed its own gate) does that caller
\* then store the time of its call (main.py line 134).
C31_GatedJobsAreInert ==
    [][/\ (mainPc = "e_start" /\ ~enabled /\ mainPc' # mainPc
            => /\ mainPc' \in {"idle", "r_start"}
               /\ trades' = trades /\ nextId' = nextId
               /\ active_trade' = active_trade /\ best' = best
               /\ ePreds' = ePreds /\ eLast' = eLast /\ eSeen' = "none"
               /\ (~inRisk => last_entry_time' = last_entry_time)
               /\ (inRisk => last_entry_time' = rNow))
       /\ (mainPc = "r_start" /\ ~enabled /\ mainPc' # mainPc
            => /\ mainPc' = "idle" /\ inRisk' = inRisk
               /\ trades' = trades /\ nextId' = nextId
               /\ active_trade' = active_trade /\ best' = best
               /\ eLast' = eLast
               /\ last_entry_time' = last_entry_time)]_vars

\* The main thread back in the scheduler loop after a scheduled entry job,
\* when every invocation of either job so far found the flag false: no
\* evaluation has begun, no re-trigger has been made, nothing was ordered.
C31_Witness ==
    /\ mainPc = "idle" /\ started
    /\ entryNext > Epoch + ENTRY_EVERY
    /\ eLast = 0 /\ last_entry_time = 0
    /\ trades = <<>> /\ nextId = 1 /\ active_trade = NoActive

\* C32: no task issues a close request for a trade that a close request
\* of a task has already closed: neither the trailing monitor (for the
\* trade it decided on) nor the risk job (for rm.active_trade).
C32_NoDuplicateClose ==
    [][/\ (tPc = "close" /\ tPc' # "close" => tCur.id \notin okClose)
       /\ (mainPc = "r_start"
              /\ (active_trade' # active_trade \/ mainPc' = "crashed")
            => active_trade.trade_id \notin okClose)]_vars

\* An entry evaluation (job_multiframe) is executing.
InEntry == mainPc \in {"e_start", "e_log", "e_signal", "e_confirm"}

\* C33: while an entry evaluation is executing, whether the scheduler or
\* the risk job's re-trigger called it, the scheduler starts no job: the
\* scheduled entry job and the re-triggered one are never in progress
\* together.  Each evaluation places at most one order: the step that
\* places an order is the last step of its evaluation.
C33_EntryEvaluationsExclusive ==
    /\ [](InEntry => ~ENABLED SchedEntry /\ ~ENABLED SchedRisk)
    /\ [][nextId' # nextId =>
            /\ mainPc = "e_confirm" /\ nextId' = nextId + 1
            /\ mainPc' \in {"idle", "r_start"}]_vars

\* A re-triggered evaluation is executing at a time at which the scheduled
\* entry job is due.
C33_Witness ==
    /\ mainPc = "e_signal" /\ inRisk /\ started
    /\ now >= entryNext

\* C34, in the form a finite run refutes: whenever a trade is open with a
\* profit of at least TAKE_PROFIT_PIPS at the current price, the program
\* still runs a task that will come to evaluate it (the process has not
\* ended), so that a close can follow once the broker answers.
C34_TakeProfitStillPursued ==
    \A i \in DOMAIN trades :
        MonitorProfit(trades[i], price[trades[i].instrument]) >= TAKE_PROFIT_PIPS
            => mainPc # "crashed"

\* C35: for the same trade record and the same current price, the profit
\* monitor, the trailing-stop monitor and RiskManager compute the same
\* profit_pips, whatever the units of the record (positive, negative, zero
\* or missing).
C35_ProfitsAgree ==
    calc # NoCalc => calc.monitor = calc.trailing /\ calc.trailing = calc.risk

\* For units the broker reports for an open trade (not zero, not missing)
\* the three computations do agree.
C35_SignedUnitsAgree ==
    calc # NoCalc /\ calc.units \in {ORDER_SIZE, -ORDER_SIZE}
        => calc.monitor = calc.trailing /\ calc.trailing = calc.risk

\* The price the visit of the trailing monitor fetched, read off its step.
TestFetched ==
    IF tOutcome' = "NO_PRICE" THEN NoPrice
    ELSE price[Head(tQueue).instrument]

\* C36: from the same peak records, cooldown entries and cache, on the same
\* trade, prices and time, the loop body of test_trailing_stop.py decides
\* as the one of trailing_stoploss_helper.py does (skip, hold or close) and
\* leaves the same peaks; and its close_trade_by_id leaves the same cooldown
\* entry, peaks and cache.  So the two monitors, run on the same reports,
\* cached profits and prices, stay equal cycle after cycle.
C36_MonitorsEquivalent ==
    [][/\ (tPc = "loop" /\ <<tPc, tQueue>>' # <<tPc, tQueue>> /\ tPc' # "dead"
              => LET r == TestBody(peaks, recently_closed, shared_risk_data,
                                   Head(tQueue), TestFetched, now)
                 IN /\ (tPc' = "close") = (r.do = "close")
                    /\ (tOutcome' = "HOLD") = (r.do = "hold")
                    /\ (tOutcome' \in {"COOLDOWN", "NO_PRICE"}) = (r.do = "skip")
                    /\ peaks' = r.peaks
                    /\ recently_closed' = recently_closed
                    /\ shared_risk_data' = shared_risk_data)
       /\ (tPc = "closed" /\ tPc' # "closed"
              => LET c == TestClosed(peaks, recently_closed, shared_risk_data,
                                     tCur.id, tCur.instrument, now)
                 IN /\ peaks' = c.peaks
                    /\ recently_closed' = c.recently_closed_trades
                    /\ shared_risk_data' = c.shared_risk_data)]_vars

\* The monitor has closed one trade and, the cooldown of the instrument
\* running, has skipped the other trade on it, whose armed peak it keeps;
\* the profit monitor has written the cache again after the close cleared
\* it.
C36_Witness ==
    /\ tOutcome = "COOLDOWN" /\ tCur.id \in DOMAIN trades
    /\ InCooldown(tCur.instrument, recently_closed, now)
    /\ \E tid \in okClose : tid \notin DOMAIN peaks
    /\ tCur.id \in DOMAIN peaks /\ peaks[tCur.id] >= ACTIVATION_THRESHOLD
    /\ tCur.instrument \in DOMAIN shared_risk_data

\* The monitor has closed a trade that retraced from its armed peak.
C36_WitnessRetraced ==
    /\ tOutcome = "TRAILING_STOP" /\ tPc \in {"loop", "sleep"}
    /\ tCur.id \in okClose /\ tCur.instrument \in DOMAIN recently_closed

\* C37: a trade recorded in trade_history is not open: neither a failed
\* trade-list fetch nor a failed price fetch makes fetch_trade_data record a
\* still-open trade as closed.
C37_NoFalseClosure ==
    \A tid \in DOMAIN trade_history : tid \notin DOMAIN trades

\* A trade is recorded only if an earlier cycle listed it with a price.
C37_RecordedWasSeen ==
    [][\A tid \in DOMAIN trade_history' :
          tid \notin DOMAIN trade_history
              => tid \in detected_open /\ tid \in DOMAIN trade_profits]_vars

\* C38: when update_trade_stop_loss has returned for a trade that had a
\* stop-loss order when the call began and that is still open, the trade
\* has a stop-loss order.
C38_StopLossKept ==
    slPc \in {"sleep", "done"} /\ slHad /\ slCall.trade_id \in DOMAIN trades
        => HasStopLoss(slCall.trade_id)

\* True is returned only by the step that created the new order.
C38_TrueOnlyWhenCreated ==
    [][(slPc \in {"get", "cancel", "create"} /\ slPc' = SlAfterCall
            /\ slRet' = "True")
          => (/\ slPc = "create"
              /\ slCall.trade_id \in DOMAIN trades'
              /\ trades'[slCall.trade_id].sl = SlArgument)]_vars

====
